---------------------------- MODULE Spec2Model ----------------------------
(***************************************************************************)
(* Model of the trivia game server: the in-memory Game model              *)
(* (backend/src/model/game.rs), the per-game timer                         *)
(* (backend/src/game_timer.rs) and the team / host handlers                *)
(* (backend/src/handler/*.rs).  One game code is modelled; the registry    *)
(* lock is modelled by making every locked block one atomic action.        *)
(***************************************************************************)
EXTENDS Integers, Sequences, FiniteSets, TLC

(***************************************************************************)
(* Option<T>: None is the empty sequence, Some(v) the one-element one.     *)
(***************************************************************************)
None == << >>
Some(v) == << v >>
IsSome(o) == o # None
Unwrap(o) == o[1]

\* A Vec given by its elements at 1..n, as a sequence.
AsSeq(f) == f \o << >>

(***************************************************************************)
(* HashMap helpers (teams_tx).                                             *)
(***************************************************************************)
MapInsert(m, k, v) == [x \in (DOMAIN m) \cup {k} |-> IF x = k THEN v ELSE m[x]]
MapRemove(m, k) == [x \in (DOMAIN m) \ {k} |-> m[x]]

(***************************************************************************)
(* Bounds and input sets.                                                  *)
(***************************************************************************)
MaxQuestions == 2
MaxTasks == 2
MaxSeconds == 2
MaxAnswers == 2
MaxCountdowns == 2
MaxFirstPlacePoints == 10

\* Team names a client may type.  "[E:]" stands for one non-ASCII upper-case
\* letter (E with diaeresis) and "[e:]" for its lower-case form: the first
\* two names differ only in letter case.
TeamNames == {"Zo[e:]", "ZO[E:]", "Bob"}

\* Answer texts a team may submit.
Texts == {"x", " X ", "y"}

\* Team connections (one WebSocket each), host connections and watcher
\* connections; a connection's number names its send channel.
Conns == {1, 2}
HostConns == {0, 3}
WatcherConns == {4}

\* The user ids a validated token may carry.
Users == {"A", "B"}

(***************************************************************************)
(* Program constants (game.rs).                                            *)
(***************************************************************************)
DEFAULT_TIMER_DURATION == 30
DEFAULT_QUESTION_POINTS == 50
DEFAULT_BONUS_INCREMENT == 5
DEFAULT_SPEED_BONUS_ENABLED == FALSE
DEFAULT_SPEED_BONUS_NUM_TEAMS == 2
DEFAULT_SPEED_BONUS_FIRST_PLACE_POINTS == 10

(***************************************************************************)
(* String conversions, computed letter by letter on the names and texts    *)
(* above.  str::to_lowercase folds every letter; eq_ignore_ascii_case      *)
(* folds only A-Z.                                                         *)
(***************************************************************************)
to_lowercase(s) ==
    CASE s = "Zo[e:]" -> "zo[e:]"
      [] s = "ZO[E:]" -> "zo[e:]"
      [] s = "Bob"    -> "bob"
      [] s = " X "    -> " x "
      [] s = "X"      -> "x"
      [] OTHER        -> s

to_ascii_lowercase(s) ==
    CASE s = "Zo[e:]" -> "zo[e:]"
      [] s = "ZO[E:]" -> "zo[E:]"
      [] s = "Bob"    -> "bob"
      [] s = " X "    -> " x "
      [] s = "X"      -> "x"
      [] OTHER        -> s

eq_ignore_ascii_case(a, b) == to_ascii_lowercase(a) = to_ascii_lowercase(b)

trim(s) ==
    CASE s = " X " -> "X"
      [] s = " x " -> "x"
      [] OTHER     -> s

\* answer_text.trim().to_lowercase()
trim_to_lowercase(s) == to_lowercase(trim(s))

(***************************************************************************)
(* types.rs                                                                *)
(***************************************************************************)
QuestionKinds == {"Standard", "MultiAnswer", "MultipleChoice"}
McConfigs == {"McDefault", "McCustom"}

ScoreData_new ==
    [question_points |-> 0, bonus_points |-> 0,
     speed_bonus_points |-> 0, override_points |-> 0]

\* The QuestionConfig of a kind, with the given McConfig for MultipleChoice.
ConfigOfKind(kind, mc) ==
    IF kind = "MultipleChoice" THEN [type |-> "MultipleChoice", config |-> mc]
    ELSE [type |-> kind, config |-> "none"]

ConfigKind(question_config) == question_config.type

has_answers(question) == Len(question.answers) > 0

\* Iterator::find / position over a sequence, given for each element whether
\* it satisfies the test: the first index that does, or 0.
FirstIdx(hits) ==
    IF \E i \in 1..Len(hits) : hits[i]
    THEN CHOOSE i \in 1..Len(hits) : hits[i] /\ \A j \in 1..(i - 1) : ~hits[j]
    ELSE 0

normalize_answer_text(content) ==
    IF content = None THEN None
    ELSE IF Unwrap(content).type \in {"Standard", "MultipleChoice"}
         THEN Some(trim_to_lowercase(Unwrap(content).text))
         ELSE None

(***************************************************************************)
(* Game (game.rs).  A Game is a record; every operation is a function     *)
(* from the game (and its arguments) to the new game.                      *)
(***************************************************************************)
Game_new(host_tx) ==
    [host_tx |-> Some(host_tx),
     teams_tx |-> << >>,
     current_question_number |-> 1,
     timer_running |-> FALSE,
     timer_seconds_remaining |-> Some(DEFAULT_TIMER_DURATION),
     teams |-> << >>,
     questions |-> << [timer_duration |-> DEFAULT_TIMER_DURATION,
                       question_points |-> DEFAULT_QUESTION_POINTS,
                       bonus_increment |-> DEFAULT_BONUS_INCREMENT,
                       question_kind |-> "Standard",
                       question_config |-> ConfigOfKind("Standard", "McDefault"),
                       answers |-> << >>,
                       speed_bonus_enabled |-> DEFAULT_SPEED_BONUS_ENABLED] >>,
     game_settings |-> [default_timer_duration |-> DEFAULT_TIMER_DURATION,
                        default_question_points |-> DEFAULT_QUESTION_POINTS,
                        default_bonus_increment |-> DEFAULT_BONUS_INCREMENT,
                        default_question_type |-> "Standard",
                        default_mc_config |-> "McDefault",
                        speed_bonus_enabled |-> DEFAULT_SPEED_BONUS_ENABLED,
                        speed_bonus_num_teams |-> DEFAULT_SPEED_BONUS_NUM_TEAMS,
                        speed_bonus_first_place_points |->
                            DEFAULT_SPEED_BONUS_FIRST_PLACE_POINTS],
     timer_abort_handle |-> None]

\* Index of the team record with this name (compared by to_lowercase), or 0.
find_team(g, team_name) ==
    LET Match(t) == to_lowercase(t.team_name) = to_lowercase(team_name)
    IN FirstIdx([ix \in 1..Len(g.teams) |-> Match(g.teams[ix])])

set_host_tx(g, host_tx) == [g EXCEPT !.host_tx = Some(host_tx)]

\* clear_host_tx that also marks every team disconnected.
clear_host_tx_and_teams(g) ==
    [g EXCEPT !.host_tx = None,
              !.teams = AsSeq([i \in 1..Len(g.teams) |->
                                  [g.teams[i] EXCEPT !.connected = FALSE]])]

clear_host_tx(g) == [g EXCEPT !.host_tx = None]

clear_team_tx(g, team_name) ==
    [g EXCEPT !.teams_tx = MapRemove(g.teams_tx, to_lowercase(team_name))]

\* add_team that appends a record whether or not the name is known.
add_team_always_push(g, team_name, team_tx) ==
    LET g1 == [g EXCEPT !.teams_tx = MapInsert(g.teams_tx, to_lowercase(team_name), team_tx)]
    IN [g1 EXCEPT !.teams = Append(g1.teams,
            [team_name |-> team_name, score |-> ScoreData_new, connected |-> TRUE])]

add_team(g, team_name, team_tx) ==
    LET g1 == [g EXCEPT !.teams_tx = MapInsert(g.teams_tx, to_lowercase(team_name), team_tx)]
        i == find_team(g1, team_name)
    IN IF i # 0
       THEN [g1 EXCEPT !.teams[i].connected = TRUE]
       ELSE [g1 EXCEPT !.teams = Append(g1.teams,
                [team_name |-> team_name, score |-> ScoreData_new, connected |-> TRUE])]

rejoin_team(g, team_name, team_tx) ==
    LET i == find_team(g, team_name)
    IN IF i = 0
       THEN [ok |-> FALSE, game |-> g]
       ELSE [ok |-> TRUE,
             game |-> [g EXCEPT !.teams_tx = MapInsert(g.teams_tx, to_lowercase(team_name), team_tx),
                                !.teams[i].connected = TRUE]]

set_team_connected(g, team_name, connected) ==
    LET i == find_team(g, team_name)
    IN IF i = 0 THEN g ELSE [g EXCEPT !.teams[i].connected = connected]

current_question(g) == g.questions[g.current_question_number]

to_game_state(g) ==
    [current_question_number |-> g.current_question_number,
     timer_running |-> g.timer_running,
     timer_seconds_remaining |-> g.timer_seconds_remaining,
     teams |-> g.teams,
     questions |-> g.questions,
     game_settings |-> g.game_settings]

\* filter_for_team that takes the question's first answer, whoever gave it.
filter_for_team_first(question, team_name) ==
    IF Len(question.answers) > 0 THEN question.answers[1]
    ELSE [team_name |-> team_name, score |-> ScoreData_new, content |-> None,
          question_kind |-> question.question_kind,
          question_config |-> question.question_config]

\* Question::filter_for_team: the answer whose team_name is exactly team_name.
filter_for_team(question, team_name) ==
    LET Match(a) == a.team_name = team_name
        i == FirstIdx([ix \in 1..Len(question.answers) |-> Match(question.answers[ix])])
    IN IF i # 0 THEN question.answers[i]
       ELSE [team_name |-> team_name, score |-> ScoreData_new, content |-> None,
             question_kind |-> question.question_kind,
             question_config |-> question.question_config]

to_team_game_state(g, team_name) ==
    LET i == find_team(g, team_name)
    IN IF i = 0 THEN None
       ELSE Some([current_question_number |-> g.current_question_number,
                  timer_running |-> g.timer_running,
                  timer_seconds_remaining |-> g.timer_seconds_remaining,
                  team |-> g.teams[i],
                  questions |-> AsSeq([q \in 1..Len(g.questions) |->
                                    filter_for_team(g.questions[q], team_name)])])

(***************************************************************************)
(* Question navigation.                                                    *)
(***************************************************************************)
create_question_from_settings(g) ==
    [timer_duration |-> g.game_settings.default_timer_duration,
     question_points |-> g.game_settings.default_question_points,
     bonus_increment |-> g.game_settings.default_bonus_increment,
     question_kind |-> g.game_settings.default_question_type,
     question_config |-> ConfigOfKind(g.game_settings.default_question_type,
                                      g.game_settings.default_mc_config),
     answers |-> << >>,
     speed_bonus_enabled |-> g.game_settings.speed_bonus_enabled]

\* Game::stop_timer.  Aborting the task is the caller's AbortTask on the
\* handle this returns in .aborted.
stop_timer(g) ==
    [game |-> [g EXCEPT !.timer_abort_handle = None, !.timer_running = FALSE],
     aborted |-> g.timer_abort_handle]

next_question(g) ==
    LET s == stop_timer(g)
        g1 == [s.game EXCEPT !.current_question_number = @ + 1]
        g2 == IF g1.current_question_number > Len(g1.questions)
              THEN [g1 EXCEPT !.questions = Append(@, create_question_from_settings(g1))]
              ELSE g1
    IN [game |-> [g2 EXCEPT !.timer_seconds_remaining =
                                Some(current_question(g2).timer_duration)],
        aborted |-> s.aborted]

\* prev_question with stop_timer moved above the first-question test.
prev_question_stop_first(g) ==
    LET s == stop_timer(g)
    IN IF g.current_question_number <= 1
       THEN [ok |-> FALSE, game |-> s.game, aborted |-> s.aborted]
       ELSE LET g1 == [s.game EXCEPT !.current_question_number = @ - 1]
            IN [ok |-> TRUE,
                game |-> [g1 EXCEPT !.timer_seconds_remaining =
                                        Some(current_question(g1).timer_duration)],
                aborted |-> s.aborted]

\* prev_question testing "< 1" where the code tests "<= 1"; question 0 has
\* no timer_duration to read.
prev_question_below_first(g) ==
    IF g.current_question_number < 1
    THEN [ok |-> FALSE, game |-> g, aborted |-> None]
    ELSE LET s == stop_timer(g)
             g1 == [s.game EXCEPT !.current_question_number = @ - 1]
         IN [ok |-> TRUE,
             game |-> IF g1.current_question_number = 0 THEN g1
                      ELSE [g1 EXCEPT !.timer_seconds_remaining =
                                          Some(current_question(g1).timer_duration)],
             aborted |-> s.aborted]

prev_question(g) ==
    IF g.current_question_number <= 1
    THEN [ok |-> FALSE, game |-> g, aborted |-> None]
    ELSE LET s == stop_timer(g)
             g1 == [s.game EXCEPT !.current_question_number = @ - 1]
         IN [ok |-> TRUE,
             game |-> [g1 EXCEPT !.timer_seconds_remaining =
                                     Some(current_question(g1).timer_duration)],
             aborted |-> s.aborted]

\* recalculate_team_score that starts the team's score anew, override_points
\* included.
recalculate_team_score_reset_override(g, team_name) ==
    LET Mine(a) == eq_ignore_ascii_case(a.team_name, team_name)
        AnswerScore(q) ==
            LET i == FirstIdx([ix \in 1..Len(g.questions[q].answers) |-> Mine(g.questions[q].answers[ix])])
            IN IF i = 0 THEN ScoreData_new ELSE g.questions[q].answers[i].score
        SumTo[n \in 0..Len(g.questions)] ==
            IF n = 0 THEN ScoreData_new
            ELSE [question_points |-> SumTo[n - 1].question_points + AnswerScore(n).question_points,
                  bonus_points |-> SumTo[n - 1].bonus_points + AnswerScore(n).bonus_points,
                  speed_bonus_points |->
                      SumTo[n - 1].speed_bonus_points + AnswerScore(n).speed_bonus_points,
                  override_points |-> 0]
        t == find_team(g, team_name)
    IN IF t = 0 THEN g
       ELSE [g EXCEPT !.teams[t].score = SumTo[Len(g.questions)]]

(***************************************************************************)
(* Scoring.                                                                *)
(***************************************************************************)
recalculate_team_score(g, team_name) ==
    LET Mine(a) == eq_ignore_ascii_case(a.team_name, team_name)
        AnswerScore(q) ==
            LET i == FirstIdx([ix \in 1..Len(g.questions[q].answers) |-> Mine(g.questions[q].answers[ix])])
            IN IF i = 0 THEN ScoreData_new ELSE g.questions[q].answers[i].score
        SumTo[n \in 0..Len(g.questions)] ==
            IF n = 0 THEN ScoreData_new
            ELSE [question_points |-> SumTo[n - 1].question_points + AnswerScore(n).question_points,
                  bonus_points |-> SumTo[n - 1].bonus_points + AnswerScore(n).bonus_points,
                  speed_bonus_points |->
                      SumTo[n - 1].speed_bonus_points + AnswerScore(n).speed_bonus_points,
                  override_points |-> 0]
        total == SumTo[Len(g.questions)]
        t == find_team(g, team_name)
    IN IF t = 0 THEN g
       ELSE [g EXCEPT !.teams[t].score.question_points = total.question_points,
                      !.teams[t].score.bonus_points = total.bonus_points,
                      !.teams[t].score.speed_bonus_points = total.speed_bonus_points]

\* recalculate_team_score for each name of a sequence, in order.
RECURSIVE recalculate_team_scores(_, _)
recalculate_team_scores(g, names) ==
    IF names = << >> THEN g
    ELSE recalculate_team_scores(recalculate_team_score(g, Head(names)), Tail(names))

\* calculate_speed_bonus that pays the first place's points to every place.
calculate_speed_bonus_flat(place, num_teams, first_place_points) ==
    IF place >= num_teams THEN 0
    ELSE first_place_points

\* The casts to i32 and the product are exact for the small values the
\* model gives to the settings.
calculate_speed_bonus(place, num_teams, first_place_points) ==
    IF place >= num_teams THEN 0
    ELSE (first_place_points * (num_teams - place)) \div num_teams

\* The loop of recalculate_speed_bonuses over the answers from index i on,
\* with the running place counter.
RECURSIVE SpeedBonusWalk(_, _, _, _, _)
SpeedBonusWalk(answers, i, place, num_teams, first_place_points) ==
    IF i > Len(answers) THEN [answers |-> answers, teams_changed |-> << >>]
    ELSE LET a == answers[i]
             correct == a.score.question_points > 0
             new_speed_bonus ==
                 IF correct
                 THEN calculate_speed_bonus(place, num_teams, first_place_points)
                 ELSE 0
             changed == a.score.speed_bonus_points # new_speed_bonus
             answers2 == IF changed
                         THEN [answers EXCEPT ![i].score.speed_bonus_points = new_speed_bonus]
                         ELSE answers
             rest == SpeedBonusWalk(answers2, i + 1, IF correct THEN place + 1 ELSE place,
                                    num_teams, first_place_points)
         IN [answers |-> rest.answers,
             teams_changed |-> (IF changed THEN << a.team_name >> ELSE << >>)
                                   \o rest.teams_changed]

\* q is the 1-based position of the question (question_idx + 1).
recalculate_speed_bonuses(g, q) ==
    LET question == g.questions[q]
        Cleared == AsSeq([i \in 1..Len(question.answers) |->
                             [question.answers[i] EXCEPT !.score.speed_bonus_points = 0]])
        ClearedNames == SelectSeq(question.answers,
                                  LAMBDA a : a.score.speed_bonus_points # 0)
        walk == SpeedBonusWalk(question.answers, 1, 0,
                               g.game_settings.speed_bonus_num_teams,
                               g.game_settings.speed_bonus_first_place_points)
    IN IF ~question.speed_bonus_enabled
       THEN [game |-> [g EXCEPT !.questions[q].answers = Cleared],
             teams_changed |-> AsSeq([i \in 1..Len(ClearedNames) |->
                                         ClearedNames[i].team_name])]
       ELSE [game |-> [g EXCEPT !.questions[q].answers = walk.answers],
             teams_changed |-> walk.teams_changed]

\* The names of s that do not equal team_name, in order
\* (add_answer: `if team != team_name`).
OtherNames(s, team_name) == SelectSeq(s, LAMBDA n : n # team_name)

\* Fault: any answer scored above zero passes on its score, not only one
\* scored with the full points of the question.
auto_score_matches_any_correct(existing, question_base_points, normalized_new) ==
    /\ existing.score.question_points > 0
    /\ normalize_answer_text(existing.content) = Some(normalized_new)

\* The test of add_answer's find_map: existing is scored with the full
\* points of the question and has the new answer's normalized text.
auto_score_matches(existing, question_base_points, normalized_new) ==
    /\ existing.score.question_points = question_base_points
    /\ normalize_answer_text(existing.content) = Some(normalized_new)

add_answer(g, team_name, answer_text) ==
    LET q == g.current_question_number
        question == g.questions[q]
        Mine(a) == eq_ignore_ascii_case(a.team_name, team_name)
        question_base_points == question.question_points
        normalized_new == trim_to_lowercase(answer_text)
        Matches(existing) == auto_score_matches(existing, question_base_points, normalized_new)
        m == FirstIdx([ix \in 1..Len(question.answers) |-> Matches(question.answers[ix])])
        new_score ==
            IF m # 0
            THEN [ScoreData_new EXCEPT !.question_points = question_base_points,
                                       !.bonus_points = question.answers[m].score.bonus_points]
            ELSE ScoreData_new
        g1 == [g EXCEPT !.questions[q].answers = Append(@,
                  [team_name |-> team_name,
                   score |-> new_score,
                   content |-> Some([type |-> question.question_kind, text |-> answer_text]),
                   question_kind |-> question.question_kind,
                   question_config |-> question.question_config])]
        sb == recalculate_speed_bonuses(g1, q)
    IN IF FirstIdx([ix \in 1..Len(question.answers) |-> Mine(question.answers[ix])]) # 0 THEN [ok |-> FALSE, game |-> g]
       ELSE IF question.question_kind = "MultiAnswer" THEN [ok |-> FALSE, game |-> g]
       ELSE IF m = 0 THEN [ok |-> TRUE, game |-> g1]
       ELSE [ok |-> TRUE,
             game |-> recalculate_team_scores(
                          recalculate_team_score(sb.game, team_name),
                          OtherNames(sb.teams_changed, team_name))]

\* Fault: the propagation loop compares the answers' text as typed, without
\* trimming and lower-casing it.
SyncMatching_raw_text(answers, answer_idx, normalized_text, score) ==
    LET Differs(i) ==
            /\ i # answer_idx
            /\ answers[i].content = answers[answer_idx].content
            /\ \/ answers[i].score.question_points # score.question_points
               \/ answers[i].score.bonus_points # score.bonus_points
    IN [answers |-> AsSeq([i \in 1..Len(answers) |->
                        IF Differs(i)
                        THEN [answers[i] EXCEPT !.score.question_points = score.question_points,
                                                !.score.bonus_points = score.bonus_points]
                        ELSE answers[i]]),
        teams_changed |->
            LET idx == SelectSeq(AsSeq([i \in 1..Len(answers) |-> i]), Differs)
            IN AsSeq([k \in 1..Len(idx) |-> answers[idx[k]].team_name])]

\* The equivalence propagation loop of score_answer: every answer other
\* than answer_idx with the target's normalized text takes the new
\* question_points and bonus_points.
SyncMatching(answers, answer_idx, normalized_text, score) ==
    LET Differs(i) ==
            /\ i # answer_idx
            /\ normalize_answer_text(answers[i].content) = normalized_text
            /\ \/ answers[i].score.question_points # score.question_points
               \/ answers[i].score.bonus_points # score.bonus_points
    IN [answers |-> AsSeq([i \in 1..Len(answers) |->
                        IF Differs(i)
                        THEN [answers[i] EXCEPT !.score.question_points = score.question_points,
                                                !.score.bonus_points = score.bonus_points]
                        ELSE answers[i]]),
        teams_changed |->
            LET idx == SelectSeq(AsSeq([i \in 1..Len(answers) |-> i]), Differs)
            IN AsSeq([k \in 1..Len(idx) |-> answers[idx[k]].team_name])]

\* teams_to_update with the names of more appended unless already contained.
RECURSIVE PushMissing(_, _)
PushMissing(teams_to_update, more) ==
    IF more = << >> THEN teams_to_update
    ELSE PushMissing(IF \E i \in 1..Len(teams_to_update) : teams_to_update[i] = Head(more)
                     THEN teams_to_update
                     ELSE Append(teams_to_update, Head(more)),
                     Tail(more))

score_answer(g, question_number, team_name, score) ==
    LET q == question_number
        Mine(a) == eq_ignore_ascii_case(a.team_name, team_name)
        answer_idx == FirstIdx([ix \in 1..Len(g.questions[q].answers) |-> Mine(g.questions[q].answers[ix])])
        g1 == [g EXCEPT !.questions[q].answers[answer_idx].score =
                  [score EXCEPT !.speed_bonus_points =
                      g.questions[q].answers[answer_idx].score.speed_bonus_points]]
        normalized_text == normalize_answer_text(g1.questions[q].answers[answer_idx].content)
        sync == SyncMatching(g1.questions[q].answers, answer_idx, normalized_text, score)
        g2 == IF normalized_text = None THEN g1
              ELSE [g1 EXCEPT !.questions[q].answers = sync.answers]
        synced == IF normalized_text = None THEN << >> ELSE sync.teams_changed
        sb == recalculate_speed_bonuses(g2, q)
        teams_to_update == PushMissing(<< team_name >> \o synced, sb.teams_changed)
    IN IF q < 1 \/ q > Len(g.questions) THEN [ok |-> FALSE, game |-> g]
       ELSE IF answer_idx = 0 THEN [ok |-> FALSE, game |-> g]
       ELSE [ok |-> TRUE, game |-> recalculate_team_scores(sb.game, teams_to_update)]

override_team_score(g, team_name, override_points) ==
    LET t == find_team(g, team_name)
    IN IF t = 0 THEN [ok |-> FALSE, game |-> g]
       ELSE [ok |-> TRUE, game |-> [g EXCEPT !.teams[t].score.override_points = override_points]]

(***************************************************************************)
(* Settings.                                                               *)
(***************************************************************************)
\* update_game_settings rewriting every question, answered or not.
update_game_settings_all_questions(g, settings) ==
    LET default_question_config ==
            ConfigOfKind(settings.default_question_type, settings.default_mc_config)
        Apply(question) ==
            [question EXCEPT !.timer_duration = settings.default_timer_duration,
                             !.question_points = settings.default_question_points,
                             !.bonus_increment = settings.default_bonus_increment,
                             !.question_kind = settings.default_question_type,
                             !.question_config = default_question_config,
                             !.speed_bonus_enabled = settings.speed_bonus_enabled]
        g1 == [g EXCEPT !.game_settings = settings,
                        !.questions = AsSeq([q \in 1..Len(g.questions) |->
                                              Apply(g.questions[q])])]
    IN IF ~has_answers(current_question(g1)) /\ ~g1.timer_running
       THEN [g1 EXCEPT !.timer_seconds_remaining = Some(settings.default_timer_duration)]
       ELSE g1

update_game_settings(g, settings) ==
    LET default_question_config ==
            ConfigOfKind(settings.default_question_type, settings.default_mc_config)
        Apply(question) ==
            IF ~has_answers(question)
            THEN [question EXCEPT !.timer_duration = settings.default_timer_duration,
                                  !.question_points = settings.default_question_points,
                                  !.bonus_increment = settings.default_bonus_increment,
                                  !.question_kind = settings.default_question_type,
                                  !.question_config = default_question_config,
                                  !.speed_bonus_enabled = settings.speed_bonus_enabled]
            ELSE question
        g1 == [g EXCEPT !.game_settings = settings,
                        !.questions = AsSeq([q \in 1..Len(g.questions) |->
                                              Apply(g.questions[q])])]
    IN IF ~has_answers(current_question(g1)) /\ ~g1.timer_running
       THEN [g1 EXCEPT !.timer_seconds_remaining = Some(settings.default_timer_duration)]
       ELSE g1

\* update_question_settings without the has_answers test.
update_question_settings_any(g, question_number, timer_duration, question_points, bonus_increment, question_type, speed_bonus_enabled) ==
    LET q == question_number
        g1 == [g EXCEPT !.questions[q].timer_duration = timer_duration,
                        !.questions[q].question_points = question_points,
                        !.questions[q].bonus_increment = bonus_increment,
                        !.questions[q].question_kind = question_type,
                        !.questions[q].speed_bonus_enabled = speed_bonus_enabled]
        g2 == IF ConfigKind(g1.questions[q].question_config) # question_type
              THEN [g1 EXCEPT !.questions[q].question_config =
                                  ConfigOfKind(question_type, "McDefault")]
              ELSE g1
    IN IF q < 1 \/ q > Len(g.questions)
       THEN [ok |-> FALSE, message |-> "Question does not exist", game |-> g]
       ELSE [ok |-> TRUE, message |-> "",
             game |-> IF question_number = g2.current_question_number /\ ~g2.timer_running
                      THEN [g2 EXCEPT !.timer_seconds_remaining = Some(timer_duration)]
                      ELSE g2]

update_question_settings(g, question_number, timer_duration, question_points, bonus_increment, question_type, speed_bonus_enabled) ==
    LET q == question_number
        g1 == [g EXCEPT !.questions[q].timer_duration = timer_duration,
                        !.questions[q].question_points = question_points,
                        !.questions[q].bonus_increment = bonus_increment,
                        !.questions[q].question_kind = question_type,
                        !.questions[q].speed_bonus_enabled = speed_bonus_enabled]
        g2 == IF ConfigKind(g1.questions[q].question_config) # question_type
              THEN [g1 EXCEPT !.questions[q].question_config =
                                  ConfigOfKind(question_type, "McDefault")]
              ELSE g1
    IN IF q < 1 \/ q > Len(g.questions)
       THEN [ok |-> FALSE, message |-> "Question does not exist", game |-> g]
       ELSE IF has_answers(g.questions[q])
       THEN [ok |-> FALSE,
             message |-> "Cannot update settings for a question that has answers",
             game |-> g]
       ELSE [ok |-> TRUE, message |-> "",
             game |-> IF question_number = g2.current_question_number /\ ~g2.timer_running
                      THEN [g2 EXCEPT !.timer_seconds_remaining = Some(timer_duration)]
                      ELSE g2]

\* self.questions[question_idx] is indexed without a bounds check: a
\* question_number outside 1..len panics (.panic).
update_type_specific_settings(g, question_number, question_config) ==
    LET q == question_number
    IN IF q < 1 \/ q > Len(g.questions)
       THEN [ok |-> FALSE, panic |-> TRUE, message |-> "index out of bounds", game |-> g]
       ELSE IF has_answers(g.questions[q])
       THEN [ok |-> FALSE, panic |-> FALSE,
             message |-> "Cannot update settings for a question that has answers",
             game |-> g]
       ELSE IF ConfigKind(question_config) # g.questions[q].question_kind
       THEN [ok |-> FALSE, panic |-> FALSE,
             message |-> "Config type does not match question type", game |-> g]
       ELSE [ok |-> TRUE, panic |-> FALSE, message |-> "",
             game |-> [g EXCEPT !.questions[q].question_config = question_config]]

(***************************************************************************)
(* Server messages (server_message.rs).  A message is addressed to the    *)
(* channel of a connection, named by the connection's number.              *)
(***************************************************************************)
GameStateMsg(to, state) == [to |-> to, type |-> "GameState", state |-> state]
TeamGameStateMsg(to, state) == [to |-> to, type |-> "TeamGameState", state |-> state]
TimerTickMsg(to, seconds_remaining) ==
    [to |-> to, type |-> "TimerTick", state |-> [seconds_remaining |-> seconds_remaining]]
ErrorMsg(to, message) == [to |-> to, type |-> "Error", state |-> [message |-> message]]

\* The host message of broadcast_game_state.
HostStateMsgs(g) ==
    IF IsSome(g.host_tx) THEN {GameStateMsg(Unwrap(g.host_tx), to_game_state(g))} ELSE {}

\* The loop over teams_tx shared by broadcast_game_state and the Broadcast
\* arm of process_host_message: the key of teams_tx is the team name.
TeamStateMsgs(g) ==
    {TeamGameStateMsg(g.teams_tx[k], Unwrap(to_team_game_state(g, k))) :
        k \in {n \in DOMAIN g.teams_tx : IsSome(to_team_game_state(g, n))}}

broadcast_game_state(g) == HostStateMsgs(g) \cup TeamStateMsgs(g)

\* The scoreboard shown to watchers: the teams with their scores.
to_scoreboard_data(g) == [teams |-> g.teams]

ScoreboardDataMsg(to, data) == [to |-> to, type |-> "ScoreboardData", state |-> data]

broadcast_scoreboard_data(g, watchers_tx) ==
    {ScoreboardDataMsg(w, to_scoreboard_data(g)) : w \in watchers_tx}

broadcast_timer_tick(g, seconds_remaining) ==
    (IF IsSome(g.host_tx) THEN {TimerTickMsg(Unwrap(g.host_tx), seconds_remaining)} ELSE {})
    \cup {TimerTickMsg(g.teams_tx[k], seconds_remaining) : k \in DOMAIN g.teams_tx}

(***************************************************************************)
(* handler/host.rs: process_host_action, the locked part of a host        *)
(* message.  An action is a record with a .type and its fields.            *)
(***************************************************************************)
NoTeamMsg == [kind |-> "None", msgs |-> {}]
BroadcastTeamMsg == [kind |-> "Broadcast", msgs |-> {}]

\* HostOk that asks for a save whatever the action.
HostOk_always_persist(h, g, aborted, should_persist) ==
    [game |-> g, aborted |-> aborted,
     host_msg |-> GameStateMsg(h, to_game_state(g)),
     team_msg |-> BroadcastTeamMsg,
     should_persist |-> TRUE,
     panic |-> FALSE]

HostOk(h, g, aborted, should_persist) ==
    [game |-> g, aborted |-> aborted,
     host_msg |-> GameStateMsg(h, to_game_state(g)),
     team_msg |-> BroadcastTeamMsg,
     should_persist |-> should_persist,
     panic |-> FALSE]

\* HostErr that also asks for the broadcast to the teams.
HostErr_broadcast(h, g, message) ==
    [game |-> g, aborted |-> None,
     host_msg |-> ErrorMsg(h, message),
     team_msg |-> BroadcastTeamMsg,
     should_persist |-> FALSE,
     panic |-> FALSE]

HostErr(h, g, message) ==
    [game |-> g, aborted |-> None,
     host_msg |-> ErrorMsg(h, message),
     team_msg |-> NoTeamMsg,
     should_persist |-> FALSE,
     panic |-> FALSE]

\* The action panics before it has changed the game: no result is returned
\* and the stack of the connection's task unwinds.
HostPanic(h, g) ==
    [game |-> g, aborted |-> None,
     host_msg |-> ErrorMsg(h, "panic"),
     team_msg |-> NoTeamMsg,
     should_persist |-> FALSE,
     panic |-> TRUE]

\* "let question_idx = question_number - 1" on a usize, the first statement
\* of score_answer, update_question_settings and
\* update_type_specific_settings: with question_number = 0 a build with
\* overflow checks panics; a build without them wraps to usize::MAX, an
\* index beyond every Vec.
SubtractPanics(action, overflow_checks) ==
    /\ "question_number" \in DOMAIN action
    /\ action.question_number = 0
    /\ overflow_checks

\* overflow_checks is the build's setting (on in debug builds, off in
\* release builds).
process_host_action(h, action, g, overflow_checks) ==
    IF SubtractPanics(action, overflow_checks) THEN HostPanic(h, g) ELSE
    CASE action.type = "CreateGame" -> HostErr(h, g, "Game already created")
      [] action.type = "NextQuestion" ->
            LET r == next_question(g) IN HostOk(h, r.game, r.aborted, TRUE)
      [] action.type = "PrevQuestion" ->
            LET r == prev_question(g)
            IN IF r.ok THEN HostOk(h, r.game, r.aborted, TRUE)
               ELSE [HostErr(h, r.game, "Already at first question")
                        EXCEPT !.aborted = r.aborted]
      [] action.type = "ScoreAnswer" ->
            LET r == score_answer(g, action.question_number, action.team_name, action.score)
            IN IF r.ok THEN HostOk(h, r.game, None, FALSE)
               ELSE HostErr(h, g, "Failed to score answer for team")
      [] action.type = "OverrideTeamScore" ->
            LET r == override_team_score(g, action.team_name, action.override_points)
                key == to_lowercase(action.team_name)
                state == to_team_game_state(r.game, action.team_name)
            IN IF r.ok
               THEN [game |-> r.game, aborted |-> None,
                     host_msg |-> GameStateMsg(h, to_game_state(r.game)),
                     team_msg |->
                         IF key \in DOMAIN r.game.teams_tx /\ IsSome(state)
                         THEN [kind |-> "Single",
                               msgs |-> {TeamGameStateMsg(r.game.teams_tx[key], Unwrap(state))}]
                         ELSE NoTeamMsg,
                     should_persist |-> FALSE,
                     panic |-> FALSE]
               ELSE HostErr(h, g, "Team not found")
      [] action.type = "UpdateGameSettings" ->
            HostOk(h, update_game_settings(g, action.settings), None, FALSE)
      [] action.type = "UpdateQuestionSettings" ->
            LET r == update_question_settings(g, action.question_number,
                         action.timer_duration, action.question_points,
                         action.bonus_increment, action.question_type,
                         action.speed_bonus_enabled)
            IN IF r.ok THEN HostOk(h, r.game, None, FALSE) ELSE HostErr(h, g, r.message)
      [] action.type = "UpdateTypeSpecificSettings" ->
            LET r == update_type_specific_settings(g, action.question_number,
                                                   action.question_config)
            IN IF r.panic THEN HostPanic(h, g)
               ELSE IF r.ok THEN HostOk(h, r.game, None, FALSE)
               ELSE HostErr(h, g, r.message)

(***************************************************************************)
(* handler/team.rs: process_team_action, the locked part of a team        *)
(* message of connection c, which joined as team_name.                     *)
(***************************************************************************)
process_team_action(c, action, g, team_name) ==
    CASE action.type = "ValidateJoin" ->
            [game |-> g, team_msg |-> ErrorMsg(c, "Already validated"), host_msg |-> {}]
      [] action.type = "JoinGame" ->
            [game |-> g, team_msg |-> ErrorMsg(c, "Game already joined"), host_msg |-> {}]
      [] action.type = "SubmitAnswer" ->
            LET r == add_answer(g, team_name, action.answer)
                state == to_team_game_state(r.game, team_name)
            IN IF ~r.ok
               THEN [game |-> g, team_msg |-> ErrorMsg(c, "Answer already submitted"),
                     host_msg |-> {}]
               ELSE [game |-> r.game,
                     team_msg |-> IF IsSome(state) THEN TeamGameStateMsg(c, Unwrap(state))
                                  ELSE ErrorMsg(c, "Failed to get team state"),
                     host_msg |-> HostStateMsgs(r.game)]

(***************************************************************************)
(* State.                                                                  *)
(***************************************************************************)
VARIABLES
    game,        \* the Game registered under the game code
    host_pc,     \* per host connection: where its handler is
    host_local,  \* per host connection: the locals of handle_start_timer
    team_pc,     \* per team connection: where its handler is
    team_local,  \* per team connection: the team_name it validated
    tasks,       \* the tick tasks spawned so far: position and abort flag
    sent,        \* the messages enqueued on send channels by the last step
    timer_phase, \* history: the last timer transition (start, pause, reset, expiry, next)
    registry,    \* whether the games map holds the game code, and the game's host_user_id
    auth_result, \* per host connection: the AuthResult of its handshake, if any
    watchers,    \* the watcher channels registered on the game
    persistence, \* whether there is an S3 client, and the state saved per user
    shutdown_timer, \* the ShutdownTimer: its countdown tasks and the shutdown signal
    accept_pc,   \* per connection: where accept_connection is after the handler
    locked_send  \* history: a message was enqueued by a holder of the games lock

vars == << game, host_pc, host_local, team_pc, team_local, tasks, sent, timer_phase,
           registry, auth_result, watchers, persistence,
           shutdown_timer, accept_pc, locked_send >>

AuthResult(user_id, is_host) == [user_id |-> user_id, is_host |-> is_host]

AllConns == HostConns \cup Conns \cup WatcherConns

\* The history of sends made while the games lock is held, after a step
\* whose holder of the lock enqueues msgs.
SendLocked(msgs) == locked_send \/ msgs # {}

\* ShutdownTimer::new: no countdown task; pending counts the tasks in their
\* select, firing those whose sleep has elapsed, emitted is the signal on
\* shutdown_tx.
ShutdownTimer_new == [pending |-> 0, firing |-> 0, emitted |-> FALSE]

\* start_timer that spawns no task.
start_timer_never(t) == t

\* ShutdownTimer::start_timer: one more task subscribed to cancel_tx and
\* asleep; the tasks started before are left running.
start_timer(t) == [t EXCEPT !.pending = t.pending + 1]

\* ShutdownTimer::cancel_timer: true is sent on cancel_tx and every task in
\* its select ends; a task whose sleep has elapsed is past its select.
cancel_timer(t) == [t EXCEPT !.pending = 0]

\* The persistence of local mode: save and load do nothing.
NoPersistence == [enabled |-> FALSE, saved |-> [u \in Users |-> None]]

NoLocal == [team_name |-> ""]
Tasks == 1..MaxTasks

\* The number of answers recorded over all questions.
TotalAnswers(g) ==
    LET S[n \in 0..Len(g.questions)] ==
            IF n = 0 THEN 0 ELSE S[n - 1] + Len(g.questions[n].answers)
    IN S[Len(g.questions)]

\* The state after user "A" has created the game on connection 0, with no
\* S3 client: connection 0 is in the host loop.
Init ==
    /\ game = Game_new(0)
    /\ host_pc = [h \in HostConns |-> IF h = 0 THEN "idle" ELSE "closed"]
    /\ host_local = [h \in HostConns |-> None]
    /\ team_pc = [c \in Conns |-> "closed"]
    /\ team_local = [c \in Conns |-> NoLocal]
    /\ tasks = [t \in Tasks |-> [pc |-> "none", aborted |-> FALSE, tick |-> 0]]
    /\ sent = {}
    /\ timer_phase = "none"
    /\ registry = [present |-> TRUE, host_user_id |-> "A"]
    /\ auth_result = [h \in HostConns |-> IF h = 0 THEN Some(AuthResult("A", TRUE)) ELSE None]
    /\ watchers = {}
    /\ persistence = NoPersistence
    /\ shutdown_timer = ShutdownTimer_new
    /\ accept_pc = [c \in AllConns |-> "none"]
    /\ locked_send = FALSE

\* The state after the server has started, with an S3 client and nothing
\* saved: the games map is empty (game is not read while registry.present is
\* false) and no connection has been accepted.
InitHost ==
    /\ game = [Game_new(0) EXCEPT !.host_tx = None]
    /\ host_pc = [h \in HostConns |-> "closed"]
    /\ host_local = [h \in HostConns |-> None]
    /\ team_pc = [c \in Conns |-> "closed"]
    /\ team_local = [c \in Conns |-> NoLocal]
    /\ tasks = [t \in Tasks |-> [pc |-> "none", aborted |-> FALSE, tick |-> 0]]
    /\ sent = {}
    /\ timer_phase = "none"
    /\ registry = [present |-> FALSE, host_user_id |-> ""]
    /\ auth_result = [h \in HostConns |-> None]
    /\ watchers = {}
    /\ persistence = [enabled |-> TRUE, saved |-> [u \in Users |-> None]]
    /\ shutdown_timer = ShutdownTimer_new
    /\ accept_pc = [c \in AllConns |-> "none"]
    /\ locked_send = FALSE

(***************************************************************************)
(* Tick task cancellation.  AbortHandle::abort takes effect where the     *)
(* task is suspended: a task asleep never runs again; a task between its   *)
(* two locked blocks is marked and is dropped at its next suspension.      *)
(***************************************************************************)
AbortTask(ts, handle) ==
    IF handle = None THEN ts
    ELSE LET t == Unwrap(handle)
         IN IF ts[t].pc = "sleep" THEN [ts EXCEPT ![t].pc = "done"]
            ELSE IF ts[t].pc \in {"tick_bcast", "final_bcast"}
            THEN [ts EXCEPT ![t].aborted = TRUE]
            ELSE ts

(***************************************************************************)
(* Team connections (handler/team.rs).  send_msg on an unbounded channel  *)
(* never suspends, so the sends that follow a locked block are taken with  *)
(* it in one step; TeamMessageLocked and HostMessageLocked, further down,  *)
(* take the two apart for the order of the sends of different tasks.       *)
(***************************************************************************)
\* The ValidateJoin step of the team entry protocol.
validate_join(present, g, team_name) ==
    LET i == find_team(g, team_name)
    IN IF ~present THEN "not_found"
       ELSE IF i = 0 THEN "validated"
       ELSE IF g.teams[i].connected THEN "in_use"
       ELSE "rejoin"

ValidateJoin(c, team_name) ==
    /\ team_pc[c] = "closed"
    /\ LET v == validate_join(registry.present, game, team_name)
       IN /\ team_pc' = [team_pc EXCEPT ![c] =
                            CASE v = "validated" -> "validated"
                              [] v = "rejoin" -> "rejoining"
                              [] OTHER -> "closed"]
          /\ team_local' = [team_local EXCEPT ![c] =
                               IF v \in {"in_use", "not_found"} THEN NoLocal
                               ELSE [team_name |-> team_name]]
          /\ sent' = CASE v = "validated" ->
                            {[to |-> c, type |-> "JoinValidated", state |-> [none |-> TRUE]]}
                       [] v = "rejoin" ->
                            {TeamGameStateMsg(c, Unwrap(to_team_game_state(game, team_name)))}
                       [] v = "not_found" -> {ErrorMsg(c, "Game code not found")}
                       [] OTHER -> {ErrorMsg(c, "Team name already in use")}
    /\ UNCHANGED << registry, auth_result, watchers, persistence, game, host_pc, host_local, tasks, timer_phase,
                    shutdown_timer, accept_pc, locked_send >>

\* join_game: add_team and the sends, all before drop(games_map).
JoinGame(c) ==
    /\ team_pc[c] = "validated"
    /\ LET team_name == team_local[c].team_name
           g1 == add_team(game, team_name, c)
           state == to_team_game_state(g1, team_name)
       IN /\ game' = g1
          /\ sent' = (IF IsSome(state) THEN {TeamGameStateMsg(c, Unwrap(state))} ELSE {})
                     \cup HostStateMsgs(g1)
                     \cup broadcast_scoreboard_data(g1, watchers)
    /\ team_pc' = [team_pc EXCEPT ![c] = "loop"]
    /\ UNCHANGED << registry, auth_result, watchers, persistence, host_pc, host_local, team_local, tasks, timer_phase,
                    shutdown_timer, accept_pc >>
    /\ locked_send' = SendLocked(sent')

\* rejoin_game.
RejoinGame(c) ==
    /\ team_pc[c] = "rejoining"
    /\ LET g1 == rejoin_team(game, team_local[c].team_name, c).game
       IN /\ game' = g1
          /\ sent' = HostStateMsgs(g1) \cup broadcast_scoreboard_data(g1, watchers)
    /\ team_pc' = [team_pc EXCEPT ![c] = "loop"]
    /\ UNCHANGED << registry, auth_result, watchers, persistence, host_pc, host_local, team_local, tasks, timer_phase,
                    shutdown_timer, accept_pc >>
    /\ locked_send' = SendLocked(sent')

\* process_team_message: the locked block and the sends that follow it.
\* The model records at most MaxAnswers answers.
TeamMessage(c, action) ==
    /\ team_pc[c] = "loop"
    /\ LET r == process_team_action(c, action, game, team_local[c].team_name)
       IN /\ TotalAnswers(r.game) <= MaxAnswers
          /\ game' = r.game
          /\ sent' = {r.team_msg} \cup r.host_msg
    /\ UNCHANGED << registry, auth_result, watchers, persistence, host_pc, host_local, team_pc, team_local, tasks, timer_phase,
                    shutdown_timer, accept_pc, locked_send >>

\* handle_team after the loop: the locked block and the send to the host.
TeamExit(c) ==
    /\ team_pc[c] = "loop"
    /\ LET team_name == team_local[c].team_name
           g1 == clear_team_tx(set_team_connected(game, team_name, FALSE), team_name)
       IN /\ game' = g1
          /\ sent' = HostStateMsgs(g1)
    /\ team_pc' = [team_pc EXCEPT ![c] = "closed"]
    /\ team_local' = [team_local EXCEPT ![c] = NoLocal]
    /\ UNCHANGED << registry, auth_result, watchers, persistence, host_pc, host_local, tasks, timer_phase,
                    shutdown_timer, accept_pc, locked_send >>

(***************************************************************************)
(* Host connection (handler/host.rs): one message is processed at a time. *)
(***************************************************************************)
\* PersistenceClient::save_game_state and load_game_state: without an S3
\* client save does nothing and load finds nothing; the key is the user id
\* (and the game code).
save_game_state(p, user_id, state) ==
    IF p.enabled THEN [p EXCEPT !.saved[user_id] = Some(state)] ELSE p

load_game_state(p, user_id) == IF p.enabled THEN p.saved[user_id] ELSE None

\* The user id handle_host was entered with.
UserOf(h) == Unwrap(auth_result[h]).user_id

\* Whether process_host_message holds a game_state_for_persist to save.
Saving(h) ==
    /\ IsSome(host_local[h])
    /\ "game_state_for_persist" \in DOMAIN Unwrap(host_local[h])

\* process_host_message: the locked block and the sends that follow it.
\* TeamMessage::Broadcast goes on to take the lock again.  The snapshot
\* for the save is kept where there is an S3 client to save it to.  The
\* model creates at most MaxQuestions questions.  A panic in the locked
\* block unwinds the connection's task: the lock is released, nothing is
\* sent, and neither the end of handle_host nor that of accept_connection
\* runs.
HostMessage(h, action) ==
    /\ host_pc[h] = "idle"
    /\ action.type = "NextQuestion" => Len(game.questions) < MaxQuestions
                                        \/ game.current_question_number < Len(game.questions)
    /\ \E overflow_checks \in (IF SubtractPanics(action, TRUE) THEN BOOLEAN ELSE {TRUE}) :
       LET r == process_host_action(h, action, game, overflow_checks)
       IN /\ game' = r.game
          /\ tasks' = AbortTask(tasks, r.aborted)
          /\ sent' = IF r.panic THEN {} ELSE {r.host_msg} \cup r.team_msg.msgs
          /\ host_pc' = [host_pc EXCEPT ![h] =
                            IF r.panic THEN "panicked"
                            ELSE IF r.team_msg.kind = "Broadcast" THEN "broadcast"
                            ELSE "idle"]
          /\ timer_phase' = IF r.game.timer_running = game.timer_running
                                /\ r.game.timer_seconds_remaining = game.timer_seconds_remaining
                             THEN timer_phase
                             ELSE IF action.type = "NextQuestion" THEN "next" ELSE "none"
          /\ host_local' = [host_local EXCEPT ![h] =
                               IF r.should_persist /\ persistence.enabled
                               THEN Some([game_state_for_persist |-> to_game_state(r.game)])
                               ELSE @]
    /\ UNCHANGED << registry, auth_result, watchers, persistence, team_pc, team_local,
                    shutdown_timer, accept_pc, locked_send >>

\* process_host_message: TeamMessage::Broadcast re-acquires the lock and
\* sends each team its TeamGameState of the game as it is then; the
\* snapshot, if one was taken, is then saved, and a failed save is reported
\* to the host.
HostBroadcast(h) ==
    /\ host_pc[h] = "broadcast"
    /\ \E fails \in (IF Saving(h) THEN BOOLEAN ELSE {FALSE}) :
          /\ sent' = TeamStateMsgs(game)
                       \cup (IF fails THEN {ErrorMsg(h, "Failed to save game state")} ELSE {})
          /\ persistence' =
                IF Saving(h) /\ ~fails
                THEN save_game_state(persistence, UserOf(h),
                                     Unwrap(host_local[h]).game_state_for_persist)
                ELSE persistence
    /\ host_local' = [host_local EXCEPT ![h] = IF Saving(h) THEN None ELSE @]
    /\ host_pc' = [host_pc EXCEPT ![h] = "idle"]
    /\ UNCHANGED << registry, auth_result, watchers, game, team_pc, team_local, tasks, timer_phase,
                    shutdown_timer, accept_pc >>
    /\ locked_send' = SendLocked(TeamStateMsgs(game))

(***************************************************************************)
(* The locked block and the sends taken apart.  The runtime of              *)
(* #[tokio::main] runs tasks on several threads, so another task can take   *)
(* the lock between a handler's release of it and the handler's sends.      *)
(***************************************************************************)
\* process_team_message up to the release of the lock: the result is held by
\* the handler.
TeamMessageLocked(c, action) ==
    /\ team_pc[c] = "loop"
    /\ LET r == process_team_action(c, action, game, team_local[c].team_name)
       IN /\ TotalAnswers(r.game) <= MaxAnswers
          /\ game' = r.game
          /\ team_local' = [team_local EXCEPT ![c] =
                               [team_name |-> @.team_name,
                                result |-> {r.team_msg} \cup r.host_msg]]
    /\ team_pc' = [team_pc EXCEPT ![c] = "send"]
    /\ sent' = {}
    /\ UNCHANGED << registry, auth_result, watchers, persistence, host_pc, host_local, tasks, timer_phase,
                    shutdown_timer, accept_pc, locked_send >>

\* process_team_message: "Send messages outside the lock".
TeamMessageSend(c) ==
    /\ team_pc[c] = "send"
    /\ sent' = team_local[c].result
    /\ team_local' = [team_local EXCEPT ![c] = [team_name |-> @.team_name]]
    /\ team_pc' = [team_pc EXCEPT ![c] = "loop"]
    /\ UNCHANGED << registry, auth_result, watchers, persistence, game, host_pc, host_local, tasks, timer_phase,
                    shutdown_timer, accept_pc, locked_send >>

\* process_host_message up to the release of the lock: the result, and the
\* snapshot for the save if there is one, are held by the handler.
HostMessageLocked(h, action) ==
    /\ host_pc[h] = "idle"
    /\ action.type = "NextQuestion" => Len(game.questions) < MaxQuestions
                                        \/ game.current_question_number < Len(game.questions)
    /\ \E overflow_checks \in (IF SubtractPanics(action, TRUE) THEN BOOLEAN ELSE {TRUE}) :
       LET r == process_host_action(h, action, game, overflow_checks)
       IN /\ game' = r.game
          /\ tasks' = AbortTask(tasks, r.aborted)
          /\ host_pc' = [host_pc EXCEPT ![h] = IF r.panic THEN "panicked" ELSE "send"]
          /\ timer_phase' = IF r.game.timer_running = game.timer_running
                                /\ r.game.timer_seconds_remaining = game.timer_seconds_remaining
                             THEN timer_phase
                             ELSE IF action.type = "NextQuestion" THEN "next" ELSE "none"
          /\ host_local' = [host_local EXCEPT ![h] =
                               IF r.panic THEN @
                               ELSE IF r.should_persist /\ persistence.enabled
                               THEN Some([result |-> {r.host_msg} \cup r.team_msg.msgs,
                                          kind |-> r.team_msg.kind,
                                          game_state_for_persist |-> to_game_state(r.game)])
                               ELSE Some([result |-> {r.host_msg} \cup r.team_msg.msgs,
                                          kind |-> r.team_msg.kind])]
    /\ sent' = {}
    /\ UNCHANGED << registry, auth_result, watchers, persistence, team_pc, team_local,
                    shutdown_timer, accept_pc, locked_send >>

\* process_host_message: "Send messages outside the lock", the message to
\* the host and the one to a single team; a broadcast to the teams follows
\* under the lock.
HostMessageSend(h) ==
    /\ host_pc[h] = "send"
    /\ sent' = Unwrap(host_local[h]).result
    /\ host_pc' = [host_pc EXCEPT ![h] =
                      IF Unwrap(host_local[h]).kind = "Broadcast" THEN "broadcast" ELSE "idle"]
    /\ host_local' = [host_local EXCEPT ![h] =
                         IF Saving(h)
                         THEN Some([game_state_for_persist |->
                                        Unwrap(host_local[h]).game_state_for_persist])
                         ELSE None]
    /\ UNCHANGED << registry, auth_result, watchers, persistence, game, team_pc, team_local, tasks, timer_phase,
                    shutdown_timer, accept_pc, locked_send >>

(***************************************************************************)
(* Host entry (server.rs handle_connection, handler/host.rs create_game)  *)
(* and exit.                                                               *)
(***************************************************************************)
\* The handshake: the callback keeps the AuthResult of a valid token; no
\* token, or one the validator rejects, leaves none.
HostConnect(h, auth) ==
    /\ host_pc[h] = "closed"
    /\ host_pc' = [host_pc EXCEPT ![h] = "connected"]
    /\ auth_result' = [auth_result EXCEPT ![h] = auth]
    /\ sent' = {}
    /\ UNCHANGED << game, host_local, team_pc, team_local, tasks, timer_phase,
                    registry, watchers, persistence,
                    shutdown_timer, accept_pc, locked_send >>

\* An error is written to the socket and the connection handler returns.
Refuse(h, message) ==
    /\ sent' = {ErrorMsg(h, message)}
    /\ host_pc' = [host_pc EXCEPT ![h] = "done"]
    /\ UNCHANGED << game, host_local, team_pc, team_local, tasks, timer_phase,
                    registry, auth_result, watchers, persistence,
                    accept_pc, locked_send >>

\* Game::from_saved_state: the saved state with this host channel and no
\* team channel.
from_saved_state(host_tx, state) ==
    [host_tx |-> Some(host_tx),
     teams_tx |-> << >>,
     current_question_number |-> state.current_question_number,
     timer_running |-> state.timer_running,
     timer_seconds_remaining |-> state.timer_seconds_remaining,
     teams |-> state.teams,
     questions |-> state.questions,
     game_settings |-> state.game_settings,
     timer_abort_handle |-> None]

\* create_game without the comparison of host_user_id with user_id.
create_game_any_user(h, user_id) ==
    IF registry.present
    THEN IF IsSome(game.host_tx)
         THEN Refuse(h, "Game already has an active host")
         ELSE /\ game' = set_host_tx(game, h)
              /\ sent' = {GameStateMsg(h, to_game_state(game'))}
              /\ host_pc' = [host_pc EXCEPT ![h] = "idle"]
              /\ UNCHANGED << host_local, team_pc, team_local, tasks, timer_phase,
                              registry, auth_result, watchers, persistence,
                    accept_pc, locked_send >>
    ELSE /\ host_pc' = [host_pc EXCEPT ![h] = "loading"]
         /\ sent' = {}
         /\ UNCHANGED << game, host_local, team_pc, team_local, tasks, timer_phase,
                         registry, auth_result, watchers, persistence,
                    accept_pc, locked_send >>

\* create_game up to the end of its locked block: a game in the map that has
\* a host, or belongs to another user, is refused; the owner's channel is
\* attached to a game without a host; for a code not in the map the lock is
\* released and the saved state is loaded.
create_game(h, user_id) ==
    IF registry.present
    THEN IF IsSome(game.host_tx)
         THEN Refuse(h, "Game already has an active host")
         ELSE IF registry.host_user_id # user_id
         THEN Refuse(h, "Game code already exists")
         ELSE /\ game' = set_host_tx(game, h)
              /\ sent' = {GameStateMsg(h, to_game_state(game'))}
              /\ host_pc' = [host_pc EXCEPT ![h] = "idle"]
              /\ UNCHANGED << host_local, team_pc, team_local, tasks, timer_phase,
                              registry, auth_result, watchers, persistence,
                    accept_pc, locked_send >>
    ELSE /\ host_pc' = [host_pc EXCEPT ![h] = "loading"]
         /\ sent' = {}
         /\ UNCHANGED << game, host_local, team_pc, team_local, tasks, timer_phase,
                         registry, auth_result, watchers, persistence,
                    accept_pc, locked_send >>

\* The dispatch accepting every AuthResult, whatever its is_host.
FirstHostMessage_any_auth(h, action) ==
    /\ host_pc[h] = "connected"
    /\ shutdown_timer' = IF IsSome(auth_result[h]) /\ action.type = "CreateGame"
                         THEN cancel_timer(shutdown_timer) ELSE shutdown_timer
    /\ IF IsSome(auth_result[h])
       THEN IF action.type = "CreateGame"
            THEN create_game(h, UserOf(h))
            ELSE Refuse(h, "First action must be CreateGame")
       ELSE Refuse(h, "Authentication required for host actions")

\* handle_connection: the dispatch of a connection's first message, a host
\* action.  create_game begins with cancel_timer, which is taken in one step
\* with the locked block that follows it.
FirstHostMessage(h, action) ==
    /\ host_pc[h] = "connected"
    /\ shutdown_timer' = IF /\ IsSome(auth_result[h]) /\ Unwrap(auth_result[h]).is_host
                            /\ action.type = "CreateGame"
                         THEN cancel_timer(shutdown_timer) ELSE shutdown_timer
    /\ IF IsSome(auth_result[h]) /\ Unwrap(auth_result[h]).is_host
       THEN IF action.type = "CreateGame"
            THEN create_game(h, UserOf(h))
            ELSE Refuse(h, "First action must be CreateGame")
       ELSE IF IsSome(auth_result[h])
       THEN Refuse(h, "User is not authorized as a host")
       ELSE Refuse(h, "Authentication required for host actions")

\* create_game after load_game_state has returned: the game restored from
\* the saved state, or a new one, is inserted under the game code, whatever
\* the map holds by then; a failed load is reported and the handler returns.
CreateGameLoaded(h, fails) ==
    /\ host_pc[h] = "loading"
    /\ UNCHANGED shutdown_timer
    /\ IF fails
       THEN Refuse(h, "Failed to load saved game state")
       ELSE LET loaded == load_game_state(persistence, UserOf(h))
                g == IF IsSome(loaded) THEN from_saved_state(h, Unwrap(loaded))
                     ELSE Game_new(h)
            IN /\ game' = g
               /\ registry' = [present |-> TRUE, host_user_id |-> UserOf(h)]
               /\ watchers' = {}
               /\ sent' = {GameStateMsg(h, to_game_state(g))}
               /\ host_pc' = [host_pc EXCEPT ![h] = "idle"]
               /\ UNCHANGED << host_local, team_pc, team_local, tasks, timer_phase,
                               auth_result, persistence,
                    accept_pc, locked_send >>

\* handle_host after the loop: the locked block clears the host channel of
\* the game, and the state is saved by a spawned task, which may fail.
HostExit(h, fails) ==
    /\ host_pc[h] = "idle"
    /\ game' = clear_host_tx(game)
    /\ persistence' = IF fails THEN persistence
                      ELSE save_game_state(persistence, UserOf(h), to_game_state(game'))
    /\ host_pc' = [host_pc EXCEPT ![h] = "done"]
    /\ sent' = {}
    /\ UNCHANGED << host_local, team_pc, team_local, tasks, timer_phase,
                    registry, auth_result, watchers,
                    shutdown_timer, accept_pc, locked_send >>

(***************************************************************************)
(* Watcher connections (handler/watcher.rs).                               *)
(***************************************************************************)
\* watch_game: the channel is added to the game's watchers and is sent the
\* scoreboard; no token is read.
WatchGame(w) ==
    /\ w \notin watchers
    /\ IF registry.present
       THEN /\ watchers' = watchers \cup {w}
            /\ sent' = {ScoreboardDataMsg(w, to_scoreboard_data(game))}
       ELSE /\ watchers' = watchers
            /\ sent' = {ErrorMsg(w, "Game code not found")}
    /\ UNCHANGED << game, host_pc, host_local, team_pc, team_local, tasks, timer_phase,
                    registry, auth_result, persistence,
                    shutdown_timer, accept_pc, locked_send >>

\* handle_watcher after the loop.
WatcherExit(w) ==
    /\ w \in watchers
    /\ watchers' = watchers \ {w}
    /\ sent' = {}
    /\ UNCHANGED << game, host_pc, host_local, team_pc, team_local, tasks, timer_phase,
                    registry, auth_result, persistence,
                    shutdown_timer, accept_pc, locked_send >>

(***************************************************************************)
(* The acceptor and the idle-shutdown supervisor (server.rs, timer.rs).    *)
(***************************************************************************)
\* handle_connection has returned: a host connection is done; a team or a
\* watcher number with no handler stands for a connection that has left its
\* loop or was turned away at its first message.
HandlerReturned(c) ==
    IF c \in HostConns THEN host_pc[c] = "done"
    ELSE IF c \in Conns THEN team_pc[c] = "closed"
    ELSE c \notin watchers

\* Where accept_connection is once it has returned or started the timer: a
\* host connection has ended, a team or watcher number is free again.
AcceptEnd(c) == IF c \in HostConns THEN "returned" ELSE "none"

\* accept_connection after handle_connection: the loop over the games,
\* under the games lock; it returns when a game has a host channel.
AcceptCheck(c) ==
    /\ HandlerReturned(c)
    /\ accept_pc[c] = "none"
    /\ accept_pc' = [accept_pc EXCEPT ![c] =
                        IF registry.present /\ IsSome(game.host_tx) THEN AcceptEnd(c)
                        ELSE "start"]
    /\ sent' = {}
    /\ UNCHANGED << game, host_pc, host_local, team_pc, team_local, tasks, timer_phase,
                    registry, auth_result, watchers, persistence,
                    shutdown_timer, locked_send >>

\* accept_connection: start_timer, under the timer lock.  The model keeps
\* at most MaxCountdowns countdown tasks.
AcceptStart(c) ==
    /\ accept_pc[c] = "start"
    /\ shutdown_timer.pending + shutdown_timer.firing < MaxCountdowns
    /\ shutdown_timer' = start_timer(shutdown_timer)
    /\ accept_pc' = [accept_pc EXCEPT ![c] = AcceptEnd(c)]
    /\ sent' = {}
    /\ UNCHANGED << game, host_pc, host_local, team_pc, team_local, tasks, timer_phase,
                    registry, auth_result, watchers, persistence, locked_send >>

\* A countdown task: its sleep elapses before a cancellation reaches it.
CountdownElapsed ==
    /\ shutdown_timer.pending > 0
    /\ shutdown_timer' = [shutdown_timer EXCEPT !.pending = @ - 1, !.firing = @ + 1]
    /\ sent' = {}
    /\ UNCHANGED << game, host_pc, host_local, team_pc, team_local, tasks, timer_phase,
                    registry, auth_result, watchers, persistence, accept_pc, locked_send >>

\* A countdown task after infra::shutdown_server: the signal on shutdown_tx.
ShutdownEmit ==
    /\ shutdown_timer.firing > 0
    /\ shutdown_timer' = [shutdown_timer EXCEPT !.firing = @ - 1, !.emitted = TRUE]
    /\ sent' = {}
    /\ UNCHANGED << game, host_pc, host_local, team_pc, team_local, tasks, timer_phase,
                    registry, auth_result, watchers, persistence, accept_pc, locked_send >>

(***************************************************************************)
(* Timer (game_timer.rs).  The host's StartTimer, PauseTimer and          *)
(* ResetTimer messages run handle_start_timer, handle_pause_timer and      *)
(* handle_reset_timer; each lock().await starts a new atomic step.         *)
(***************************************************************************)
\* handle_start_timer: the first locked block.
start_timer_state(g, seconds) ==
    LET g1 == [g EXCEPT !.timer_abort_handle = None]
        g2 == IF IsSome(seconds)
              THEN [g1 EXCEPT !.timer_seconds_remaining = Some(Unwrap(seconds))]
              ELSE IF g1.timer_seconds_remaining = None \/ g1.timer_seconds_remaining = Some(0)
              THEN [g1 EXCEPT !.timer_seconds_remaining = Some(30)]
              ELSE g1
        g3 == [g2 EXCEPT !.timer_running = TRUE]
    IN [game |-> g3, aborted |-> g.timer_abort_handle,
        should_spawn |-> (IF IsSome(g3.timer_seconds_remaining)
                          THEN Unwrap(g3.timer_seconds_remaining) ELSE 0) > 0]

\* handle_pause_timer: the first locked block.
pause_timer_state(g) ==
    [game |-> [g EXCEPT !.timer_abort_handle = None, !.timer_running = FALSE],
     aborted |-> g.timer_abort_handle]

\* handle_reset_timer: the first locked block.
reset_timer_state(g) ==
    [game |-> [g EXCEPT !.timer_abort_handle = None,
                        !.timer_seconds_remaining = Some(30),
                        !.timer_running = FALSE],
     aborted |-> g.timer_abort_handle]

\* tick_state that leaves the timer running when it reaches 0.
tick_state_keeps_running(g) ==
    IF ~g.timer_running THEN [game |-> g, next |-> "done", tick |-> 0]
    ELSE IF g.timer_seconds_remaining = None THEN [game |-> g, next |-> "done", tick |-> 0]
    ELSE IF Unwrap(g.timer_seconds_remaining) = 0 THEN [game |-> g, next |-> "done", tick |-> 0]
    ELSE LET new_remaining == Unwrap(g.timer_seconds_remaining) - 1
             g1 == [g EXCEPT !.timer_seconds_remaining = Some(new_remaining)]
         IN IF new_remaining = 0
            THEN [game |-> g1, next |-> "final_bcast", tick |-> 0]
            ELSE [game |-> g1, next |-> "tick_bcast", tick |-> new_remaining]

\* The tick task's locked block.  .next is where the task goes: "done"
\* (break), "tick_bcast" or "final_bcast".
tick_state(g) ==
    IF ~g.timer_running THEN [game |-> g, next |-> "done", tick |-> 0]
    ELSE IF g.timer_seconds_remaining = None THEN [game |-> g, next |-> "done", tick |-> 0]
    ELSE IF Unwrap(g.timer_seconds_remaining) = 0 THEN [game |-> g, next |-> "done", tick |-> 0]
    ELSE LET new_remaining == Unwrap(g.timer_seconds_remaining) - 1
             g1 == [g EXCEPT !.timer_seconds_remaining = Some(new_remaining)]
         IN IF new_remaining = 0
            THEN [game |-> [g1 EXCEPT !.timer_running = FALSE, !.timer_abort_handle = None],
                  next |-> "final_bcast", tick |-> 0]
            ELSE [game |-> g1, next |-> "tick_bcast", tick |-> new_remaining]

\* The model spawns at most MaxTasks tick tasks.
StartTimer(h, seconds) ==
    /\ host_pc[h] = "idle"
    /\ \E t \in Tasks : tasks[t].pc = "none"
    /\ LET r == start_timer_state(game, seconds)
       IN /\ game' = r.game
          /\ tasks' = AbortTask(tasks, r.aborted)
          /\ host_local' = [host_local EXCEPT ![h] = Some([should_spawn |-> r.should_spawn])]
    /\ host_pc' = [host_pc EXCEPT ![h] = "start_broadcast"]
    /\ sent' = {}
    /\ UNCHANGED << registry, auth_result, watchers, persistence, team_pc, team_local,
                    shutdown_timer, accept_pc, locked_send >>
    /\ timer_phase' = "started"

\* "Broadcast initial state to all clients": the second locked block.
StartBroadcast(h) ==
    /\ host_pc[h] = "start_broadcast"
    /\ sent' = broadcast_game_state(game)
    /\ IF Unwrap(host_local[h]).should_spawn
       THEN /\ host_pc' = [host_pc EXCEPT ![h] = "start_spawn"]
            /\ host_local' = host_local
       ELSE /\ host_pc' = [host_pc EXCEPT ![h] = "idle"]
            /\ host_local' = [host_local EXCEPT ![h] = None]
    /\ UNCHANGED << registry, auth_result, watchers, persistence, game, team_pc, team_local, tasks, timer_phase,
                    shutdown_timer, accept_pc >>
    /\ locked_send' = SendLocked(sent')

\* tokio::spawn of the tick task, which starts asleep.
StartSpawn(h) ==
    /\ host_pc[h] = "start_spawn"
    /\ LET t == CHOOSE x \in Tasks : tasks[x].pc = "none" /\ \A y \in Tasks : tasks[y].pc = "none" => x <= y
       IN /\ tasks' = [tasks EXCEPT ![t].pc = "sleep"]
          /\ host_local' = [host_local EXCEPT ![h] = Some([task |-> t])]
    /\ host_pc' = [host_pc EXCEPT ![h] = "start_store"]
    /\ sent' = {}
    /\ UNCHANGED << registry, auth_result, watchers, persistence, game, team_pc, team_local, timer_phase,
                    shutdown_timer, accept_pc, locked_send >>

\* "Store abort handle": the third locked block.
StartStore(h) ==
    /\ host_pc[h] = "start_store"
    /\ game' = [game EXCEPT !.timer_abort_handle = Some(Unwrap(host_local[h]).task)]
    /\ host_pc' = [host_pc EXCEPT ![h] = "idle"]
    /\ host_local' = [host_local EXCEPT ![h] = None]
    /\ sent' = {}
    /\ UNCHANGED << registry, auth_result, watchers, persistence, team_pc, team_local, tasks, timer_phase,
                    shutdown_timer, accept_pc, locked_send >>

PauseTimer(h) ==
    /\ host_pc[h] = "idle"
    /\ LET r == pause_timer_state(game)
       IN /\ game' = r.game
          /\ tasks' = AbortTask(tasks, r.aborted)
    /\ host_pc' = [host_pc EXCEPT ![h] = "pause_broadcast"]
    /\ sent' = {}
    /\ UNCHANGED << registry, auth_result, watchers, persistence, host_local, team_pc, team_local,
                    shutdown_timer, accept_pc, locked_send >>
    /\ timer_phase' = "pausing"

ResetTimer(h) ==
    /\ host_pc[h] = "idle"
    /\ LET r == reset_timer_state(game)
       IN /\ game' = r.game
          /\ tasks' = AbortTask(tasks, r.aborted)
    /\ host_pc' = [host_pc EXCEPT ![h] = "reset_broadcast"]
    /\ sent' = {}
    /\ UNCHANGED << registry, auth_result, watchers, persistence, host_local, team_pc, team_local,
                    shutdown_timer, accept_pc, locked_send >>
    /\ timer_phase' = "reset"

\* "Broadcast updated state" of handle_pause_timer and handle_reset_timer.
TimerBroadcast(h) ==
    /\ host_pc[h] \in {"pause_broadcast", "reset_broadcast"}
    /\ sent' = broadcast_game_state(game)
    /\ host_pc' = [host_pc EXCEPT ![h] = "idle"]
    /\ UNCHANGED << registry, auth_result, watchers, persistence, game, host_local, team_pc, team_local, tasks,
                    shutdown_timer, accept_pc >>
    /\ locked_send' = SendLocked(sent')
    /\ timer_phase' = IF host_pc[h] = "pause_broadcast" THEN "paused" ELSE timer_phase

(***************************************************************************)
(* The tick task (the loop spawned by handle_start_timer).                 *)
(***************************************************************************)
TaskDone == [pc |-> "done", aborted |-> FALSE, tick |-> 0]

\* sleep(1 s), then the locked block.
Tick(t) ==
    /\ tasks[t].pc = "sleep"
    /\ LET r == tick_state(game)
       IN /\ game' = r.game
          /\ tasks' = [tasks EXCEPT ![t] = IF r.next = "done" THEN TaskDone
                                           ELSE [pc |-> r.next, aborted |-> FALSE,
                                                 tick |-> r.tick]]
          /\ timer_phase' = IF r.next = "final_bcast" THEN "expired" ELSE timer_phase
    /\ sent' = {}
    /\ UNCHANGED << registry, auth_result, watchers, persistence, host_pc, host_local, team_pc, team_local,
                    shutdown_timer, accept_pc, locked_send >>

\* "Broadcast tick": the lock is taken again and the TimerTick is sent to
\* the channels registered then; the loop then sleeps, where an aborted
\* task ends.
TickBroadcast(t) ==
    /\ tasks[t].pc = "tick_bcast"
    /\ sent' = broadcast_timer_tick(game, tasks[t].tick)
    /\ tasks' = [tasks EXCEPT ![t] = IF tasks[t].aborted THEN TaskDone
                                     ELSE [pc |-> "sleep", aborted |-> FALSE, tick |-> 0]]
    /\ UNCHANGED << registry, auth_result, watchers, persistence, game, host_pc, host_local, team_pc, team_local, timer_phase,
                    shutdown_timer, accept_pc >>
    /\ locked_send' = SendLocked(sent')

\* "or final state": the lock is taken again and the game as it is then is
\* broadcast; the task ends.
FinalBroadcast(t) ==
    /\ tasks[t].pc = "final_bcast"
    /\ sent' = broadcast_game_state(game)
    /\ tasks' = [tasks EXCEPT ![t] = TaskDone]
    /\ UNCHANGED << registry, auth_result, watchers, persistence, game, host_pc, host_local, team_pc, team_local, timer_phase,
                    shutdown_timer, accept_pc >>
    /\ locked_send' = SendLocked(sent')

\* An aborted task suspended in lock().await is dropped there.
TickCancelled(t) ==
    /\ tasks[t].pc \in {"tick_bcast", "final_bcast"}
    /\ tasks[t].aborted
    /\ tasks' = [tasks EXCEPT ![t] = TaskDone]
    /\ sent' = {}
    /\ UNCHANGED << registry, auth_result, watchers, persistence, game, host_pc, host_local, team_pc, team_local, timer_phase,
                    shutdown_timer, accept_pc, locked_send >>

(***************************************************************************)
(* Inputs.                                                                 *)
(***************************************************************************)
\* Partly correct, and fully correct with one bonus increment.
ScoreInputs ==
    {[ScoreData_new EXCEPT !.question_points = 25],
     [ScoreData_new EXCEPT !.question_points = 50, !.bonus_points = 5]}

\* Fully correct with one bonus increment.
CorrectScore == [ScoreData_new EXCEPT !.question_points = 50, !.bonus_points = 5]

\* Unscored, and fully correct with one bonus increment.
CorrectOrNot ==
    {ScoreData_new,
     [ScoreData_new EXCEPT !.question_points = 50, !.bonus_points = 5]}

DefaultSettings == Game_new(0).game_settings

SettingsInputs ==
    {DefaultSettings,
     [DefaultSettings EXCEPT !.speed_bonus_enabled = TRUE],
     [DefaultSettings EXCEPT !.speed_bonus_enabled = TRUE,
                             !.speed_bonus_first_place_points = 20]}

SubmitInputs(texts) == {[type |-> "SubmitAnswer", answer |-> text] : text \in texts}

NavInputs == {[type |-> "NextQuestion"], [type |-> "PrevQuestion"]}

ScoreAnswerInputs(names, scores) ==
    {[type |-> "ScoreAnswer", question_number |-> q, team_name |-> n, score |-> sc] :
        q \in 1..MaxQuestions, n \in names, sc \in scores}

SettingsActions ==
    {[type |-> "UpdateGameSettings", settings |-> st] : st \in SettingsInputs}

SecondsInputs == {None} \cup {Some(k) : k \in 0..MaxSeconds}

\* Timer durations the host may give a question.
DurationInputs == {1, MaxSeconds}

\* UpdateQuestionSettings for the questions qs with the given durations,
\* points and kinds, the other fields as Game::new sets them.
QuestionSettingsInputs(qs, durations, points, kinds) ==
    {[type |-> "UpdateQuestionSettings", question_number |-> q,
      timer_duration |-> d, question_points |-> p,
      bonus_increment |-> DEFAULT_BONUS_INCREMENT, question_type |-> k,
      speed_bonus_enabled |-> DEFAULT_SPEED_BONUS_ENABLED] :
        q \in qs, d \in durations, p \in points, k \in kinds}

\* UpdateTypeSpecificSettings for the questions qs.
TypeSpecificInputs(qs) ==
    {[type |-> "UpdateTypeSpecificSettings", question_number |-> q,
      question_config |-> cfg] :
        q \in qs, cfg \in {ConfigOfKind("Standard", "McDefault"),
                            ConfigOfKind("MultipleChoice", "McCustom")}}

\* Game settings that differ from the defaults in every per-question field.
OtherSettings ==
    [DefaultSettings EXCEPT !.default_timer_duration = 1,
                            !.default_question_points = 25,
                            !.default_bonus_increment = 1,
                            !.default_question_type = "MultipleChoice",
                            !.default_mc_config = "McCustom",
                            !.speed_bonus_enabled = TRUE]

GameSettingsActions ==
    {[type |-> "UpdateGameSettings", settings |-> st] :
        st \in {DefaultSettings, OtherSettings}}

\* What a handshake can leave: no AuthResult, a host, a user who is not a
\* host.
AuthInputs ==
    {None, Some(AuthResult("A", TRUE)), Some(AuthResult("B", TRUE)),
     Some(AuthResult("B", FALSE))}

\* First messages of a host connection.
FirstHostInputs == {[type |-> "CreateGame"], [type |-> "NextQuestion"]}

\* The team name each connection joins with where two teams play.
NameOf(c) == IF c = 1 THEN "Bob" ELSE "Zo[e:]"
TwoTeams == {NameOf(c) : c \in Conns}

\* The spellings of one team's name.
Spellings == {"Zo[e:]", "ZO[E:]"}

(***************************************************************************)
(* Specifications.                                                         *)
(***************************************************************************)
\* Scoring: two teams submit answers and the host scores them and moves
\* between questions; no timer is started.
Next ==
    \/ \E c \in Conns : ValidateJoin(c, NameOf(c))
    \/ \E c \in Conns : JoinGame(c)
    \/ \E c \in Conns, a \in SubmitInputs(Texts) : TeamMessage(c, a)
    \/ \E h \in HostConns, a \in NavInputs \cup ScoreAnswerInputs(TwoTeams, ScoreInputs) :
          HostMessage(h, a)
    \/ \E h \in HostConns : HostBroadcast(h)

Spec == Init /\ [][Next]_vars

\* Rejoining: one team disconnects and comes back under either spelling of
\* its name, submits, and the host scores its answers.
NextRejoin ==
    \/ \E n \in Spellings : ValidateJoin(1, n)
    \/ JoinGame(1)
    \/ RejoinGame(1)
    \/ \E a \in SubmitInputs({"x"}) : TeamMessage(1, a)
    \/ TeamExit(1)
    \/ \E h \in HostConns,
          a \in NavInputs \cup ScoreAnswerInputs(Spellings, CorrectOrNot) :
          HostMessage(h, a)
    \/ \E h \in HostConns : HostBroadcast(h)

SpecRejoin == Init /\ [][NextRejoin]_vars

\* One name, two connections: both connections ask for the same team name
\* under either spelling, join or rejoin, submit and leave, and the host
\* scores the answers.
NextSameName ==
    \/ \E c \in Conns, n \in Spellings : ValidateJoin(c, n)
    \/ \E c \in Conns : JoinGame(c)
    \/ \E c \in Conns : RejoinGame(c)
    \/ \E c \in Conns, a \in SubmitInputs({"x"}) : TeamMessage(c, a)
    \/ \E c \in Conns : TeamExit(c)
    \/ \E h \in HostConns, a \in ScoreAnswerInputs(Spellings, CorrectOrNot) :
          HostMessage(h, a)
    \/ \E h \in HostConns : HostBroadcast(h)

SpecSameName == Init /\ [][NextSameName]_vars

\* Idle shutdown: hosts of one user come and go, a team and a watcher come
\* and go, every handler that returns runs the end of accept_connection,
\* and the countdown tasks run.
NextShutdown ==
    \/ \E h \in HostConns : HostConnect(h, Some(AuthResult("A", TRUE)))
    \/ \E h \in HostConns : FirstHostMessage(h, [type |-> "CreateGame"])
    \/ \E h \in HostConns : CreateGameLoaded(h, FALSE)
    \/ \E h \in HostConns : HostExit(h, FALSE)
    \/ ValidateJoin(1, "Bob")
    \/ JoinGame(1)
    \/ TeamExit(1)
    \/ \E w \in WatcherConns : WatchGame(w)
    \/ \E w \in WatcherConns : WatcherExit(w)
    \/ \E c \in AllConns \ {2} : AcceptCheck(c)
    \/ \E c \in AllConns \ {2} : AcceptStart(c)
    \/ CountdownElapsed
    \/ ShutdownEmit

SpecShutdown == InitHost /\ [][NextShutdown]_vars

\* The tokio runtime runs every task that can run: the end of
\* accept_connection of a host connection whose handler has returned is
\* executed, a sleep that is not cancelled elapses, and a countdown task
\* whose sleep has elapsed sends the signal.
FairShutdown ==
    /\ SpecShutdown
    /\ \A h \in HostConns : WF_vars(AcceptCheck(h)) /\ WF_vars(AcceptStart(h))
    /\ WF_vars(CountdownElapsed)
    /\ WF_vars(ShutdownEmit)

\* Speed bonus: two teams submit one text, the host scores the answers and
\* changes the game settings.
NextBonus ==
    \/ \E c \in Conns : ValidateJoin(c, NameOf(c))
    \/ \E c \in Conns : JoinGame(c)
    \/ \E c \in Conns, a \in SubmitInputs({"x"}) : TeamMessage(c, a)
    \/ \E h \in HostConns,
          a \in NavInputs \cup ScoreAnswerInputs(TwoTeams, CorrectOrNot)
                  \cup SettingsActions :
          HostMessage(h, a)
    \/ \E h \in HostConns : HostBroadcast(h)

SpecBonus == Init /\ [][NextBonus]_vars

\* Speed bonus settings with no paid place, one and three, and first-place
\* points that the number of places does not divide.
SpeedSettingsInputs ==
    {[DefaultSettings EXCEPT !.speed_bonus_enabled = TRUE,
                             !.speed_bonus_num_teams = n,
                             !.speed_bonus_first_place_points = MaxFirstPlacePoints] :
        n \in {0, 1, 3}}

\* Unscored, fully correct, and a negative score.
SpeedScoreInputs ==
    {ScoreData_new,
     [ScoreData_new EXCEPT !.question_points = 50],
     [ScoreData_new EXCEPT !.question_points = -5]}

\* Speed bonus places: two teams submit, the host sets the number of paid
\* places and scores the answers.
NextSpeed ==
    \/ \E c \in Conns : ValidateJoin(c, NameOf(c))
    \/ \E c \in Conns : JoinGame(c)
    \/ \E c \in Conns, a \in SubmitInputs({"x", "y"}) : TeamMessage(c, a)
    \/ \E h \in HostConns, st \in SpeedSettingsInputs :
          HostMessage(h, [type |-> "UpdateGameSettings", settings |-> st])
    \/ \E h \in HostConns, a \in ScoreAnswerInputs(TwoTeams, SpeedScoreInputs) :
          HostMessage(h, a)
    \/ \E h \in HostConns : HostBroadcast(h)

SpecSpeed == Init /\ [][NextSpeed]_vars

\* The timer: one team ("Bob") on connection 1, one answer text.  A
\* countdown starts with at most MaxSeconds seconds.
NextTimer ==
    \/ ValidateJoin(1, "Bob")
    \/ JoinGame(1)
    \/ RejoinGame(1)
    \/ \E a \in SubmitInputs({"x"}) : TeamMessage(1, a)
    \/ TeamExit(1)
    \/ \E h \in HostConns, seconds \in SecondsInputs :
          /\ StartTimer(h, seconds)
          /\ Unwrap(game'.timer_seconds_remaining) <= MaxSeconds
    \/ \E h \in HostConns : StartBroadcast(h)
    \/ \E h \in HostConns : StartSpawn(h)
    \/ \E h \in HostConns : StartStore(h)
    \/ \E h \in HostConns : PauseTimer(h)
    \/ \E h \in HostConns : ResetTimer(h)
    \/ \E h \in HostConns : TimerBroadcast(h)
    \/ \E t \in Tasks : Tick(t)
    \/ \E t \in Tasks : TickBroadcast(t)
    \/ \E t \in Tasks : FinalBroadcast(t)
    \/ \E t \in Tasks : TickCancelled(t)

SpecTimer == Init /\ [][NextTimer]_vars

\* Timer and question settings: the host changes the timer duration of the
\* question, and starts (without naming seconds), pauses and resets the timer.
NextReset ==
    \/ \E h \in HostConns,
          a \in QuestionSettingsInputs({1}, DurationInputs,
                                        {DEFAULT_QUESTION_POINTS}, {"Standard"}) :
          HostMessage(h, a)
    \/ \E h \in HostConns : HostBroadcast(h)
    \/ \E h \in HostConns : StartTimer(h, None)
    \/ \E h \in HostConns : StartBroadcast(h)
    \/ \E h \in HostConns : StartSpawn(h)
    \/ \E h \in HostConns : StartStore(h)
    \/ \E h \in HostConns : PauseTimer(h)
    \/ \E h \in HostConns : ResetTimer(h)
    \/ \E h \in HostConns : TimerBroadcast(h)
    \/ \E t \in Tasks : Tick(t)
    \/ \E t \in Tasks : TickBroadcast(t)
    \/ \E t \in Tasks : FinalBroadcast(t)
    \/ \E t \in Tasks : TickCancelled(t)

SpecReset == Init /\ [][NextReset]_vars

\* Navigation with the timer: one team ("Bob") submits one text, the host
\* scores it, starts the timer and moves between the questions.
NextNav ==
    \/ ValidateJoin(1, "Bob")
    \/ JoinGame(1)
    \/ \E a \in SubmitInputs({"x"}) : TeamMessage(1, a)
    \/ \E h \in HostConns,
          a \in NavInputs \cup ScoreAnswerInputs({"Bob"}, {CorrectScore}) :
          HostMessage(h, a)
    \/ \E h \in HostConns : HostBroadcast(h)
    \/ \E h \in HostConns, seconds \in SecondsInputs :
          /\ StartTimer(h, seconds)
          /\ Unwrap(game'.timer_seconds_remaining) \in 1..MaxSeconds
    \/ \E h \in HostConns : StartBroadcast(h)
    \/ \E h \in HostConns : StartSpawn(h)
    \/ \E h \in HostConns : StartStore(h)
    \/ \E t \in Tasks : Tick(t)
    \/ \E t \in Tasks : TickBroadcast(t)
    \/ \E t \in Tasks : FinalBroadcast(t)
    \/ \E t \in Tasks : TickCancelled(t)

SpecNav == Init /\ [][NextNav]_vars

\* Entry: host connections with and without a host's token ask for one
\* game code, the host moves to the next question and leaves, a team
\* ("Bob") and a watcher come and go.
NextHost ==
    \/ \E h \in HostConns, auth \in AuthInputs : HostConnect(h, auth)
    \/ \E h \in HostConns, a \in FirstHostInputs : FirstHostMessage(h, a)
    \/ \E h \in HostConns, fails \in BOOLEAN : CreateGameLoaded(h, fails)
    \/ \E h \in HostConns, fails \in BOOLEAN : HostExit(h, fails)
    \/ \E h \in HostConns : HostMessage(h, [type |-> "NextQuestion"])
    \/ \E h \in HostConns : HostBroadcast(h)
    \/ ValidateJoin(1, "Bob")
    \/ JoinGame(1)
    \/ TeamExit(1)
    \/ \E w \in WatcherConns : WatchGame(w)
    \/ \E w \in WatcherConns : WatcherExit(w)

SpecHost == InitHost /\ [][NextHost]_vars

\* The settings of the existing questions.
QuestionActions(g) ==
    QuestionSettingsInputs(1..Len(g.questions), {1}, {DEFAULT_QUESTION_POINTS},
                           {"MultipleChoice"})
        \cup TypeSpecificInputs(1..Len(g.questions))

\* Settings: one team ("Bob") submits one text, the host changes the game
\* settings and the settings of the existing questions, moves between the
\* questions and starts the timer once, for one second.
NextSettings ==
    \/ ValidateJoin(1, "Bob")
    \/ JoinGame(1)
    \/ \E a \in SubmitInputs({"x"}) : TeamMessage(1, a)
    \/ \E h \in HostConns,
          a \in NavInputs \cup GameSettingsActions \cup QuestionActions(game) :
          HostMessage(h, a)
    \/ \E h \in HostConns : HostBroadcast(h)
    \/ \E h \in HostConns :
          /\ \A t \in Tasks : tasks[t].pc = "none"
          /\ StartTimer(h, Some(1))
    \/ \E h \in HostConns : StartBroadcast(h)
    \/ \E h \in HostConns : StartSpawn(h)
    \/ \E h \in HostConns : StartStore(h)
    \/ \E t \in Tasks : Tick(t)
    \/ \E t \in Tasks : FinalBroadcast(t)
    \/ \E t \in Tasks : TickCancelled(t)

SpecSettings == Init /\ [][NextSettings]_vars

\* Two hosts and the timer: two connections of one user ask for the game
\* code, and each connection in the host loop starts the timer, while a
\* tick task is left for each handle_start_timer under way.
NextTwoHosts ==
    \/ \E h \in HostConns : HostConnect(h, Some(AuthResult("A", TRUE)))
    \/ \E h \in HostConns : FirstHostMessage(h, [type |-> "CreateGame"])
    \/ \E h \in HostConns : CreateGameLoaded(h, FALSE)
    \/ \E h \in HostConns :
          /\ Cardinality({t \in Tasks : tasks[t].pc = "none"})
                > Cardinality({k \in HostConns :
                                  host_pc[k] \in {"start_broadcast", "start_spawn"}})
          /\ StartTimer(h, Some(MaxSeconds))
    \/ \E h \in HostConns : StartBroadcast(h)
    \/ \E h \in HostConns : StartSpawn(h)
    \/ \E h \in HostConns : StartStore(h)
    \/ \E t \in Tasks : Tick(t)
    \/ \E t \in Tasks : TickBroadcast(t)
    \/ \E t \in Tasks : FinalBroadcast(t)
    \/ \E t \in Tasks : TickCancelled(t)

SpecTwoHosts == InitHost /\ [][NextTwoHosts]_vars

\* The question numbers a host may name: 0, the questions the game can
\* have, and one beyond them.
QuestionNumbers == 0..(MaxQuestions + 1)

\* ScoreAnswer, UpdateQuestionSettings and UpdateTypeSpecificSettings for
\* every question number a host may name.
RangeInputs ==
    {[type |-> "ScoreAnswer", question_number |-> q, team_name |-> "Bob",
      score |-> CorrectScore] : q \in QuestionNumbers}
        \cup QuestionSettingsInputs(QuestionNumbers, {1}, {DEFAULT_QUESTION_POINTS},
                                    {"MultipleChoice"})
        \cup TypeSpecificInputs(QuestionNumbers)

\* Question numbers: one team ("Bob") submits one text, the host adds a
\* question, and scores and configures questions that exist and that do not.
NextRange ==
    \/ ValidateJoin(1, "Bob")
    \/ JoinGame(1)
    \/ \E a \in SubmitInputs({"x"}) : TeamMessage(1, a)
    \/ \E h \in HostConns, a \in {[type |-> "NextQuestion"]} \cup RangeInputs :
          HostMessage(h, a)
    \/ \E h \in HostConns : HostBroadcast(h)

SpecRange == Init /\ [][NextRange]_vars

\* Host actions that the state machine can refuse: the kind of question 1,
\* its type-specific config, a score for either team, and an override for a
\* team of the game and for a name no team has.
RefusableInputs ==
    QuestionSettingsInputs({1}, {DEFAULT_TIMER_DURATION}, {DEFAULT_QUESTION_POINTS},
                           {"Standard", "MultiAnswer"})
        \cup TypeSpecificInputs({1})
        \cup {[type |-> "ScoreAnswer", question_number |-> 1, team_name |-> n,
               score |-> CorrectScore] : n \in TwoTeams}
        \cup {[type |-> "OverrideTeamScore", team_name |-> n, override_points |-> 7] :
                 n \in {"Bob", "Nobody"}}

\* Refusals: two teams and a watcher enter, the teams submit one text, and
\* the host sends actions that are accepted in some states and refused in
\* others.
NextErrors ==
    \/ \E c \in Conns : ValidateJoin(c, NameOf(c))
    \/ \E c \in Conns : JoinGame(c)
    \/ \E w \in WatcherConns : WatchGame(w)
    \/ \E c \in Conns, a \in SubmitInputs({"x"}) : TeamMessage(c, a)
    \/ \E h \in HostConns, a \in RefusableInputs : HostMessage(h, a)
    \/ \E h \in HostConns : HostBroadcast(h)

SpecErrors == Init /\ [][NextErrors]_vars

\* The host actions of a game with one team, "Bob": navigation, a score for
\* question 1, an override and the game settings.
PersistInputs ==
    NavInputs
        \cup {[type |-> "ScoreAnswer", question_number |-> 1, team_name |-> "Bob",
               score |-> CorrectScore],
              [type |-> "OverrideTeamScore", team_name |-> "Bob", override_points |-> 7],
              [type |-> "UpdateGameSettings", settings |-> OtherSettings]}

\* Persistence: with an S3 client, a host creates the game, sends every kind
\* of action and leaves; the timer is started with no time left, so that no
\* tick task is spawned, paused and reset; a team ("Bob") submits one text;
\* a save can fail.
NextPersist ==
    \/ HostConnect(0, Some(AuthResult("A", TRUE)))
    \/ FirstHostMessage(0, [type |-> "CreateGame"])
    \/ CreateGameLoaded(0, FALSE)
    \/ \E fails \in BOOLEAN : HostExit(0, fails)
    \/ ValidateJoin(1, "Bob")
    \/ JoinGame(1)
    \/ \E a \in SubmitInputs({"x"}) : TeamMessage(1, a)
    \/ \E a \in PersistInputs : HostMessage(0, a)
    \/ HostBroadcast(0)
    \/ StartTimer(0, Some(0))
    \/ StartBroadcast(0)
    \/ PauseTimer(0)
    \/ ResetTimer(0)
    \/ TimerBroadcast(0)

SpecPersist == InitHost /\ [][NextPersist]_vars

\* Order of the sends: one team ("Bob") submits one text and the host moves
\* between the questions and scores the answer, each handler releasing the
\* lock before it sends.
NextOrder ==
    \/ ValidateJoin(1, "Bob")
    \/ JoinGame(1)
    \/ \E a \in SubmitInputs({"x"}) : TeamMessageLocked(1, a)
    \/ TeamMessageSend(1)
    \/ \E h \in HostConns,
          a \in NavInputs \cup ScoreAnswerInputs({"Bob"}, {CorrectScore}) :
          HostMessageLocked(h, a)
    \/ \E h \in HostConns : HostMessageSend(h)
    \/ \E h \in HostConns : HostBroadcast(h)

SpecOrder == Init /\ [][NextOrder]_vars

\* Countdown: one team ("Bob") joins and submits, the host starts the timer
\* with 1..MaxSeconds seconds, pauses and resets it and moves between the
\* questions, and the tick tasks run.
NextCountdown ==
    \/ ValidateJoin(1, "Bob")
    \/ JoinGame(1)
    \/ \E a \in SubmitInputs({"x"}) : TeamMessage(1, a)
    \/ \E h \in HostConns, a \in NavInputs : HostMessage(h, a)
    \/ \E h \in HostConns : HostBroadcast(h)
    \/ \E h \in HostConns, seconds \in SecondsInputs :
          /\ StartTimer(h, seconds)
          /\ Unwrap(game'.timer_seconds_remaining) \in 1..MaxSeconds
    \/ \E h \in HostConns : StartBroadcast(h)
    \/ \E h \in HostConns : StartSpawn(h)
    \/ \E h \in HostConns : StartStore(h)
    \/ \E h \in HostConns : PauseTimer(h)
    \/ \E h \in HostConns : ResetTimer(h)
    \/ \E h \in HostConns : TimerBroadcast(h)
    \/ \E t \in Tasks : Tick(t)
    \/ \E t \in Tasks : TickBroadcast(t)
    \/ \E t \in Tasks : FinalBroadcast(t)
    \/ \E t \in Tasks : TickCancelled(t)

SpecCountdown == Init /\ [][NextCountdown]_vars

\* The tokio runtime runs every task that can run and its Mutex hands the
\* lock to waiters in turn: a tick task's sleep elapses and its locked
\* blocks are executed, and handle_start_timer, once entered, runs to its
\* end.
FairCountdown ==
    /\ SpecCountdown
    /\ \A t \in Tasks : WF_vars(Tick(t)) /\ WF_vars(TickBroadcast(t)) /\ WF_vars(FinalBroadcast(t))
    /\ \A h \in HostConns : WF_vars(StartBroadcast(h)) /\ WF_vars(StartSpawn(h)) /\ WF_vars(StartStore(h))

(***************************************************************************)
(* Properties.                                                             *)
(***************************************************************************)
\* The sum of a sequence of integers.
SumSeq(s) ==
    LET S[n \in 0..Len(s)] == IF n = 0 THEN 0 ELSE S[n - 1] + s[n]
    IN S[Len(s)]

\* All answers of the game, question after question.
AllAnswers ==
    LET A[n \in 0..Len(game.questions)] ==
            IF n = 0 THEN << >> ELSE A[n - 1] \o game.questions[n].answers
    IN A[Len(game.questions)]

IsSubmit(c, a) == TeamMessage(c, a) /\ a.type = "SubmitAnswer"

\* C1: a SubmitAnswer processed while timer_running is false appends no
\* answer, and the team is sent an error that says submissions are closed.
C1_SubmitOnlyWhileOpen ==
    [][\A c \in Conns, a \in SubmitInputs(Texts) :
          (IsSubmit(c, a) /\ ~game.timer_running)
          => /\ game'.questions = game.questions
             /\ \E m \in sent' : /\ m.to = c
                                 /\ m.type = "Error"
                                 /\ m.state.message = "Submissions are closed"]_vars

\* C2: every team's question_points, bonus_points and speed_bonus_points
\* are the sums of those fields over the team's answers on all questions;
\* an answer is the team's when its team name is a name of that team
\* (find_team).
C2_TeamScoreIsSum ==
    \A t \in 1..Len(game.teams) :
        LET Mine(a) == find_team(game, a.team_name) = t
            mine == SelectSeq(AllAnswers, Mine)
        IN /\ game.teams[t].score.question_points =
                  SumSeq([ix \in 1..Len(mine) |-> mine[ix].score.question_points])
           /\ game.teams[t].score.bonus_points =
                  SumSeq([ix \in 1..Len(mine) |-> mine[ix].score.bonus_points])
           /\ game.teams[t].score.speed_bonus_points =
                  SumSeq([ix \in 1..Len(mine) |-> mine[ix].score.speed_bonus_points])

\* C3: no question holds two answers whose team names are equal when letter
\* case is ignored.
C3_OneAnswerPerTeam ==
    \A q \in 1..Len(game.questions) :
        \A i, j \in 1..Len(game.questions[q].answers) :
            i # j => to_lowercase(game.questions[q].answers[i].team_name)
                         # to_lowercase(game.questions[q].answers[j].team_name)

\* The speed-bonus rule for answer i of a question's answers: its place is
\* the number of earlier answers scored above zero.
SpeedBonusRule(answers, i) ==
    IF answers[i].score.question_points > 0
    THEN calculate_speed_bonus(
             Cardinality({j \in 1..(i - 1) : answers[j].score.question_points > 0}),
             game.game_settings.speed_bonus_num_teams,
             game.game_settings.speed_bonus_first_place_points)
    ELSE 0

\* C4: on every question each answer's speed_bonus_points is the speed-bonus
\* rule under the game's current speed_bonus_num_teams and
\* speed_bonus_first_place_points, and 0 where the question's
\* speed_bonus_enabled is false.
C4_SpeedBonusCurrent ==
    \A q \in 1..Len(game.questions) :
        \A i \in 1..Len(game.questions[q].answers) :
            game.questions[q].answers[i].score.speed_bonus_points =
                IF game.questions[q].speed_bonus_enabled
                THEN SpeedBonusRule(game.questions[q].answers, i)
                ELSE 0

C7_RunningHasTime ==
    /\ game.timer_seconds_remaining = Some(0) => ~game.timer_running
    /\ game.timer_running => /\ IsSome(game.timer_seconds_remaining)
                             /\ Unwrap(game.timer_seconds_remaining) > 0

\* C8: whenever the registry lock is free, timer_running holds exactly when
\* timer_abort_handle is stored and its tick task is alive.
C8_RunningIffTask ==
    game.timer_running <=>
        /\ IsSome(game.timer_abort_handle)
        /\ tasks[Unwrap(game.timer_abort_handle)].pc \in {"sleep", "tick_bcast"}

\* C9: the tick that brings timer_seconds_remaining to 0 stops the timer and
\* clears the handle in the same step and the task goes on to its last
\* broadcast; that broadcast is a GameState or TeamGameState showing the
\* timer stopped at 0; and a SubmitAnswer processed after the expiry, before
\* the timer is touched again, appends no answer and is answered with the
\* error that submissions are closed.
C9_Expiry ==
    [][/\ \A t \in Tasks :
             (Tick(t) /\ game'.timer_seconds_remaining = Some(0)
                      /\ game.timer_seconds_remaining # Some(0))
             => /\ ~game'.timer_running
                /\ game'.timer_abort_handle = None
                /\ tasks'[t].pc = "final_bcast"
       /\ \A t \in Tasks :
             FinalBroadcast(t)
             => \A m \in sent' : /\ m.type \in {"GameState", "TeamGameState"}
                                 /\ ~m.state.timer_running
                                 /\ m.state.timer_seconds_remaining = Some(0)
       /\ \A c \in Conns, a \in SubmitInputs(Texts) :
             (IsSubmit(c, a) /\ timer_phase = "expired")
             => /\ game'.questions = game.questions
                /\ \E m \in sent' : /\ m.to = c
                                    /\ m.type = "Error"
                                    /\ m.state.message = "Submissions are closed"]_vars

\* C10: PauseTimer stops the timer and keeps timer_seconds_remaining; from
\* the pause's GameState until the next StartTimer the value stays, the
\* timer stays stopped and no TimerTick is enqueued.
C10_PauseStopsTicks ==
    [][/\ \A h \in HostConns :
             PauseTimer(h) => /\ ~game'.timer_running
                              /\ game'.timer_seconds_remaining = game.timer_seconds_remaining
       /\ (timer_phase = "paused" /\ timer_phase' = "paused")
             => /\ ~game'.timer_running
                /\ game'.timer_seconds_remaining = game.timer_seconds_remaining
                /\ \A m \in sent' : m.type # "TimerTick"]_vars

\* C11: ResetTimer leaves the timer stopped with no handle stored, the tick
\* task it held cancelled, and timer_seconds_remaining at the timer_duration
\* of the current question.
C11_ResetToDuration ==
    [][\A h \in HostConns :
          ResetTimer(h)
          => /\ ~game'.timer_running
             /\ game'.timer_abort_handle = None
             /\ IsSome(game.timer_abort_handle)
                   => LET t == Unwrap(game.timer_abort_handle)
                      IN tasks'[t].pc = "done" \/ tasks'[t].aborted
             /\ game'.timer_seconds_remaining =
                   Some(current_question(game').timer_duration)]_vars

\* C12: StartTimer on a stopped timer starts it and goes on to spawn a tick
\* task; a timer_seconds_remaining of none or 0 is first replaced by the
\* timer_duration of the current question, any other value is kept.
C12_StartFromStopped ==
    [][\A h \in HostConns :
          (StartTimer(h, None) /\ ~game.timer_running)
          => /\ game'.timer_running
             /\ Unwrap(host_local'[h]).should_spawn
             /\ game'.timer_seconds_remaining =
                   IF game.timer_seconds_remaining \in {None, Some(0)}
                   THEN Some(current_question(game).timer_duration)
                   ELSE game.timer_seconds_remaining]_vars

\* C13: the current question number lies between 1 and the number of
\* questions, whatever NextQuestion and PrevQuestion messages were handled.
C13_QuestionInRange ==
    /\ 1 <= game.current_question_number
    /\ game.current_question_number <= Len(game.questions)

\* The host went forward to the last question the model creates and back to
\* the first.
C13_Witness ==
    /\ Len(game.questions) = MaxQuestions
    /\ game.current_question_number = 1

\* C14: PrevQuestion at question 1 enqueues one message, an Error "Already at
\* first question" to the host that sent it, starts no broadcast to the
\* teams, and leaves the game (question number, questions, timer fields,
\* handle) and the tick tasks as they were.
C14_PrevAtFirst ==
    [][\A h \in HostConns :
          (HostMessage(h, [type |-> "PrevQuestion"]) /\ game.current_question_number = 1)
          => /\ game' = game
             /\ tasks' = tasks
             /\ host_pc'[h] = "idle"
             /\ sent' = {ErrorMsg(h, "Already at first question")}]_vars

\* The error has just been sent while the timer runs with its tick task.
C14_Witness ==
    /\ sent = {ErrorMsg(0, "Already at first question")}
    /\ game.current_question_number = 1
    /\ game.timer_running
    /\ IsSome(game.timer_abort_handle)
    /\ tasks[Unwrap(game.timer_abort_handle)].pc = "sleep"

\* C15: NextQuestion stops the timer (timer_running false, handle cleared,
\* its task cancelled), adds 1 to the question number, appends one question
\* built from the game settings exactly when the new number exceeds the
\* number of questions and otherwise leaves the questions as they are, sets
\* timer_seconds_remaining to the new current question's timer_duration and
\* leaves the teams with their scores; from then until the timer is started
\* again no TimerTick is enqueued.
C15_NextQuestion ==
    [][/\ \A h \in HostConns :
             HostMessage(h, [type |-> "NextQuestion"])
             => /\ ~game'.timer_running
                /\ game'.timer_abort_handle = None
                /\ IsSome(game.timer_abort_handle)
                      => LET t == Unwrap(game.timer_abort_handle)
                         IN tasks'[t].pc = "done" \/ tasks'[t].aborted
                /\ game'.current_question_number = game.current_question_number + 1
                /\ game'.questions =
                      IF game.current_question_number + 1 > Len(game.questions)
                      THEN Append(game.questions, create_question_from_settings(game))
                      ELSE game.questions
                /\ game'.timer_seconds_remaining =
                      Some(game'.questions[game'.current_question_number].timer_duration)
                /\ game'.teams = game.teams
       /\ (timer_phase = "next" /\ timer_phase' = "next")
             => /\ ~game'.timer_running
                /\ game'.timer_seconds_remaining = game.timer_seconds_remaining
                /\ \A m \in sent' : m.type # "TimerTick"]_vars

\* The settings of a question that a settings update may write.
QuestionSettings(question) ==
    [timer_duration |-> question.timer_duration,
     question_points |-> question.question_points,
     bonus_increment |-> question.bonus_increment,
     question_kind |-> question.question_kind,
     question_config |-> question.question_config,
     speed_bonus_enabled |-> question.speed_bonus_enabled]

HasAnswersError == "Cannot update settings for a question that has answers"

\* C16: UpdateQuestionSettings and UpdateTypeSpecificSettings naming a
\* question with at least one answer send the host the error "Cannot update
\* settings for a question that has answers" and nothing else, and leave
\* every question (hence that question's timer_duration, question_points,
\* bonus_increment, question_kind, question_config, speed_bonus_enabled) and
\* the rest of the game unchanged.
C16_AnsweredQuestionFrozen ==
    [][\A h \in HostConns, a \in QuestionActions(game) :
          (HostMessage(h, a) /\ has_answers(game.questions[a.question_number]))
          => /\ QuestionSettings(game'.questions[a.question_number])
                   = QuestionSettings(game.questions[a.question_number])
             /\ game' = game
             /\ sent' = {ErrorMsg(h, HasAnswersError)}]_vars

\* The error has just been sent about a question whose settings had been
\* changed before it was answered.
C16_Witness ==
    /\ sent = {ErrorMsg(0, HasAnswersError)}
    /\ \E q \in 1..Len(game.questions) :
          /\ has_answers(game.questions[q])
          /\ game.questions[q].timer_duration = 1
          /\ game.questions[q].question_kind = "MultipleChoice"

\* C17: UpdateGameSettings replaces the game settings, writes the new
\* per-question fields into exactly the questions without answers, leaves a
\* question with answers as it is, and sets timer_seconds_remaining to the
\* new default duration exactly when the current question has no answers and
\* the timer is not running.
C17_UpdateGameSettings ==
    [][\A h \in HostConns, a \in GameSettingsActions :
          HostMessage(h, a)
          => LET st == a.settings
                 New == [timer_duration |-> st.default_timer_duration,
                         question_points |-> st.default_question_points,
                         bonus_increment |-> st.default_bonus_increment,
                         question_kind |-> st.default_question_type,
                         question_config |->
                             ConfigOfKind(st.default_question_type, st.default_mc_config),
                         speed_bonus_enabled |-> st.speed_bonus_enabled]
             IN /\ game'.game_settings = st
                /\ Len(game'.questions) = Len(game.questions)
                /\ \A q \in 1..Len(game.questions) :
                      IF has_answers(game.questions[q])
                      THEN game'.questions[q] = game.questions[q]
                      ELSE /\ QuestionSettings(game'.questions[q]) = New
                           /\ game'.questions[q].answers = << >>
                /\ game'.timer_running = game.timer_running
                /\ game'.timer_seconds_remaining =
                      IF ~has_answers(current_question(game)) /\ ~game.timer_running
                      THEN Some(st.default_timer_duration)
                      ELSE game.timer_seconds_remaining]_vars

\* The settings were replaced while the timer ran: the answered question 1
\* keeps the default settings, the unanswered current question 2 has the
\* new ones, and the countdown keeps its value.
C17_Witness ==
    /\ game.game_settings = OtherSettings
    /\ Len(game.questions) = 2
    /\ game.current_question_number = 2
    /\ has_answers(game.questions[1])
    /\ game.questions[1].timer_duration = DEFAULT_TIMER_DURATION
    /\ ~has_answers(game.questions[2])
    /\ game.questions[2].timer_duration = 1
    /\ game.timer_running
    /\ game.timer_seconds_remaining = Some(1)
    /\ host_pc[0] = "broadcast"

\* A host connection that has entered handle_host and not left it.
InHostLoop(h) == host_pc[h] \notin {"closed", "connected", "loading", "done", "panicked"}

\* The connection's handshake left the AuthResult of a host.
IsHostAuth(h) == IsSome(auth_result[h]) /\ Unwrap(auth_result[h]).is_host

\* C18: at most one connection is in the host loop of the game code; a
\* CreateGame for a game whose host channel is attached is answered with the
\* error "Game already has an active host", the connection ends and the game
\* is unchanged; and an attached host channel is detached only by the step
\* in which its own connection leaves.
C18_SingleHost ==
    /\ [](Cardinality({h \in HostConns : InHostLoop(h)}) <= 1)
    /\ [][/\ \A h \in HostConns :
                (/\ FirstHostMessage(h, [type |-> "CreateGame"])
                 /\ IsHostAuth(h)
                 /\ registry.present
                 /\ IsSome(game.host_tx))
                => /\ sent' = {ErrorMsg(h, "Game already has an active host")}
                   /\ host_pc'[h] = "done"
                   /\ game' = game
          /\ \A h \in HostConns :
                (game.host_tx = Some(h) /\ game'.host_tx # Some(h))
                => host_pc'[h] = "done"]_vars

\* C19: the host channel of the game in the map belongs to a connection of
\* the user the game is tagged with; a connection that attaches its channel
\* to the game already in the map is that user's; and a CreateGame for a
\* game in the map without a host by another user is answered with the error
\* "Game code already exists", the connection ends, and the game, its empty
\* host slot and the map are unchanged.
C19_OwnerOnly ==
    /\ []((registry.present /\ IsSome(game.host_tx))
            => /\ IsHostAuth(Unwrap(game.host_tx))
               /\ UserOf(Unwrap(game.host_tx)) = registry.host_user_id)
    /\ [][/\ \A h \in HostConns :
                (host_pc[h] = "connected" /\ host_pc'[h] = "idle")
                => /\ UserOf(h) = registry.host_user_id
                   /\ game'.host_tx = Some(h)
                   /\ registry' = registry
          /\ \A h \in HostConns :
                (/\ FirstHostMessage(h, [type |-> "CreateGame"])
                 /\ IsHostAuth(h)
                 /\ registry.present
                 /\ game.host_tx = None
                 /\ UserOf(h) # registry.host_user_id)
                => /\ sent' = {ErrorMsg(h, "Game code already exists")}
                   /\ host_pc'[h] = "done"
                   /\ game' = game
                   /\ game'.host_tx = None
                   /\ registry' = registry]_vars

\* User "B" has just been refused the game of user "A", which has no host
\* and holds a team.
C19_Witness ==
    /\ sent = {ErrorMsg(3, "Game code already exists")}
    /\ host_pc[3] = "done"
    /\ auth_result[3] = Some(AuthResult("B", TRUE))
    /\ registry = [present |-> TRUE, host_user_id |-> "A"]
    /\ game.host_tx = None
    /\ Len(game.teams) = 1

\* C20: a connection in create_game or in the host loop has the AuthResult
\* of a host, and so has the connection whose channel is the game's host
\* channel; a first host action of a connection without AuthResult, or with
\* is_host false, is answered with an error, the connection ends, and the
\* map and the game are unchanged; a team's validation and join and a
\* watcher's entry succeed whatever the handshakes left.
C20_HostNeedsAuth ==
    /\ [](\A h \in HostConns : (InHostLoop(h) \/ host_pc[h] = "loading") => IsHostAuth(h))
    /\ []((registry.present /\ IsSome(game.host_tx)) => IsHostAuth(Unwrap(game.host_tx)))
    /\ [][/\ \A h \in HostConns, a \in FirstHostInputs :
                (FirstHostMessage(h, a) /\ ~IsHostAuth(h))
                => /\ sent' = {ErrorMsg(h, IF auth_result[h] = None
                                           THEN "Authentication required for host actions"
                                           ELSE "User is not authorized as a host")}
                   /\ host_pc'[h] = "done"
                   /\ registry' = registry
                   /\ game' = game
          /\ (ValidateJoin(1, "Bob") /\ registry.present /\ find_team(game, "Bob") = 0)
                => team_pc'[1] = "validated"
          /\ JoinGame(1)
                => /\ team_pc'[1] = "loop"
                   /\ find_team(game', "Bob") # 0
          /\ \A w \in WatcherConns :
                (WatchGame(w) /\ registry.present)
                => /\ w \in watchers'
                   /\ sent' = {ScoreboardDataMsg(w, to_scoreboard_data(game))}]_vars

\* A connection without a token has just been refused its CreateGame: no
\* game is in the map.
C20_Witness ==
    /\ \E h \in HostConns :
          /\ auth_result[h] = None
          /\ host_pc[h] = "done"
          /\ sent = {ErrorMsg(h, "Authentication required for host actions")}
    /\ ~registry.present

\* C21: the exit of a host connection clears the game's host channel and
\* changes nothing else of the game (teams with their connected flags and
\* scores, team channels, questions with their answers, settings, question
\* number, timer fields); a later CreateGame by the game's user, while the
\* game has no host, attaches the new channel, changes nothing else, and is
\* answered with the GameState of the game as it was kept.
C21_HostDisconnect ==
    [][/\ \A h \in HostConns, fails \in BOOLEAN :
             HostExit(h, fails)
             => /\ game'.host_tx = None
                /\ [game' EXCEPT !.host_tx = game.host_tx] = game
                /\ registry' = registry
       /\ \A h \in HostConns :
             (/\ FirstHostMessage(h, [type |-> "CreateGame"])
              /\ IsHostAuth(h)
              /\ registry.present
              /\ game.host_tx = None
              /\ UserOf(h) = registry.host_user_id)
             => /\ game' = [game EXCEPT !.host_tx = Some(h)]
                /\ sent' = {GameStateMsg(h, to_game_state(game))}
                /\ host_pc'[h] = "idle"]_vars

\* User "A" has come back on connection 3 after leaving on connection 0: the
\* game still has its team, connected, and its two questions, and the
\* GameState just sent shows them.
C21_Witness ==
    /\ host_pc[0] = "done"
    /\ host_pc[3] = "idle"
    /\ auth_result[0] = Some(AuthResult("A", TRUE))
    /\ auth_result[3] = Some(AuthResult("A", TRUE))
    /\ game.host_tx = Some(3)
    /\ Len(game.teams) = 1
    /\ game.teams[1].connected
    /\ Len(game.questions) = 2
    /\ game.current_question_number = 2
    /\ sent = {GameStateMsg(3, to_game_state(game))}

\* C22: once the game code is in the map, create_game's insert after the
\* load changes neither the map entry nor the game, and no step at all
\* takes the entry out of the map, retags it, or shortens the teams, the
\* questions or a question's answers.
C22_EntryNeverReplaced ==
    [][registry.present
       => /\ registry' = registry
          /\ \A h \in HostConns :
                CreateGameLoaded(h, FALSE)
                => /\ game' = game
                   /\ watchers' = watchers
          /\ Len(game'.teams) >= Len(game.teams)
          /\ Len(game'.questions) >= Len(game.questions)
          /\ \A q \in 1..Len(game.questions) :
                Len(game'.questions[q].answers) >= Len(game.questions[q].answers)]_vars


(***************************************************************************)
(* Team records.                                                           *)
(***************************************************************************)
\* The team records are those of before, in their order, except for the
\* connected flag of the records in ixs.
SameTeamsExcept(ixs, connected) ==
    /\ Len(game'.teams) = Len(game.teams)
    /\ \A i \in 1..Len(game.teams) :
          game'.teams[i] = IF i \in ixs THEN [game.teams[i] EXCEPT !.connected = connected]
                           ELSE game.teams[i]

\* C23: add_team with a name that equals an existing team's name without
\* regard to case is a reconnect: no second record is added (names stay
\* unique without regard to case, the list of teams never shrinks and no
\* record changes its name), the score and the answers stay, the team is
\* marked connected and its channel is replaced by the new one; a
\* disconnect only marks the team disconnected and removes its channel.
C23_AddTeamReconnects ==
    /\ [](\A i, j \in 1..Len(game.teams) :
             to_lowercase(game.teams[i].team_name) = to_lowercase(game.teams[j].team_name)
             => i = j)
    /\ [][/\ Len(game'.teams) >= Len(game.teams)
          /\ \A i \in 1..Len(game.teams) :
                game'.teams[i].team_name = game.teams[i].team_name
          /\ \A c \in Conns :
                (JoinGame(c) /\ find_team(game, team_local[c].team_name) # 0)
                => LET name == team_local[c].team_name
                   IN /\ SameTeamsExcept({find_team(game, name)}, TRUE)
                      /\ game'.questions = game.questions
                      /\ game'.teams_tx = MapInsert(game.teams_tx, to_lowercase(name), c)
                      /\ game' = [game EXCEPT !.teams = game'.teams,
                                              !.teams_tx = game'.teams_tx]
          /\ \A c \in Conns :
                TeamExit(c)
                => LET name == team_local[c].team_name
                   IN /\ SameTeamsExcept({find_team(game, name)}, FALSE)
                      /\ game'.teams_tx = MapRemove(game.teams_tx, to_lowercase(name))
                      /\ game' = [game EXCEPT !.teams = game'.teams,
                                              !.teams_tx = game'.teams_tx]]_vars

\* A connection has joined under the other spelling of a name whose team
\* has a score and an answer: there is still one record, connected, with
\* its score, and the channel is the one of the connection that joined last.
C23_Witness ==
    /\ team_pc[1] = "loop" /\ team_pc[2] = "loop"
    /\ team_local[1].team_name # team_local[2].team_name
    /\ Len(game.teams) = 1
    /\ game.teams[1].connected
    /\ game.teams[1].score.question_points > 0
    /\ Len(game.questions[1].answers) = 1
    /\ game.teams_tx[to_lowercase(team_local[2].team_name)] = 2
    /\ \E m \in sent : m.to = 2 /\ m.type = "TeamGameState"

\* C24: at most one connection is in the team loop for a team name, names
\* compared without regard to case.
C24_OneConnectionPerName ==
    \A c1, c2 \in Conns :
        (/\ team_pc[c1] = "loop" /\ team_pc[c2] = "loop"
         /\ to_lowercase(team_local[c1].team_name) = to_lowercase(team_local[c2].team_name))
        => c1 = c2

(***************************************************************************)
(* Idle shutdown.                                                          *)
(***************************************************************************)
\* Some game has a host channel.
HostAttached == registry.present /\ IsSome(game.host_tx)

\* A game exists, no game has a host channel and no host connection is
\* between its handshake and the end of its handler.
HostsGone ==
    /\ registry.present /\ game.host_tx = None
    /\ \A h \in HostConns : host_pc[h] \in {"closed", "done"}

\* A host connection is in create_game or in the host loop.
HostEntered == \E h \in HostConns : host_pc[h] \in {"loading", "idle", "broadcast"}

\* C25: once the last host has disconnected, the shutdown signal is
\* eventually emitted unless a connection enters the host entry path; and
\* no step of a team or watcher connection cancels a countdown: the number
\* of pending countdowns goes down only when a sleep elapses or a host
\* connection enters create_game.
C25_EventuallyShutdown ==
    /\ HostsGone ~> (shutdown_timer.emitted \/ HostEntered)
    /\ [][shutdown_timer'.pending < shutdown_timer.pending
          => \/ CountdownElapsed
             \/ \E h \in HostConns : FirstHostMessage(h, [type |-> "CreateGame"])]_vars

\* The host has left, a team has joined and a watcher has subscribed, the
\* countdown has run out and the signal has been emitted; no other host came.
C25_Witness ==
    /\ host_pc[0] = "done" /\ host_pc[3] = "closed"
    /\ accept_pc[0] = "returned"
    /\ registry.present /\ game.host_tx = None
    /\ team_pc[1] = "loop"
    /\ 4 \in watchers
    /\ shutdown_timer = [pending |-> 0, firing |-> 0, emitted |-> TRUE]

\* C26: while a game has a host channel no countdown is pending and no
\* shutdown signal is emitted, and start_timer is called only while no game
\* has a host channel.
C26_NoCountdownWithHost ==
    /\ [](HostAttached => shutdown_timer.pending = 0 /\ shutdown_timer.firing = 0)
    /\ [][/\ ShutdownEmit => ~HostAttached
          /\ \A c \in AllConns : AcceptStart(c) => ~HostAttached]_vars

(***************************************************************************)
(* Lock discipline.                                                        *)
(***************************************************************************)
\* C28: no message is enqueued on a client channel by a handler or a tick
\* task that holds the games lock.
C28_NoSendUnderLock == locked_send = FALSE

(***************************************************************************)
(* Team view.                                                              *)
(***************************************************************************)
\* The game with every answer of the teams other than team_name given the
\* content text and the score points.
OthersRewritten(g, team_name, text, points) ==
    LET Other(a) == to_lowercase(a.team_name) # to_lowercase(team_name)
        Rewrite(a) == [a EXCEPT !.content = Some([type |-> a.question_kind, text |-> text]),
                                !.score = [ScoreData_new EXCEPT !.question_points = points,
                                                                !.bonus_points = points]]
    IN [g EXCEPT !.questions = AsSeq([q \in 1..Len(g.questions) |->
            [g.questions[q] EXCEPT !.answers = AsSeq([ix \in 1..Len(g.questions[q].answers) |->
                IF Other(g.questions[q].answers[ix]) THEN Rewrite(g.questions[q].answers[ix])
                ELSE g.questions[q].answers[ix]])]])]

\* C27: the team view of a team holds that team's record and no other, and
\* for each question that team's own answer with its score, or an empty
\* answer if it gave none; and the view is the same in any game that
\* differs only in the content and scores of the other teams' answers.
C27_TeamViewOwnOnly ==
    \A i \in 1..Len(game.teams) :
        LET n == game.teams[i].team_name
            v == Unwrap(to_team_game_state(game, n))
            Own(q) == {ix \in 1..Len(game.questions[q].answers) :
                          game.questions[q].answers[ix].team_name = n}
        IN /\ DOMAIN v = {"current_question_number", "timer_running",
                          "timer_seconds_remaining", "team", "questions"}
           /\ v.team = game.teams[i]
           /\ Len(v.questions) = Len(game.questions)
           /\ \A q \in 1..Len(game.questions) :
                 /\ v.questions[q].team_name = n
                 /\ IF Own(q) = {}
                    THEN v.questions[q].content = None /\ v.questions[q].score = ScoreData_new
                    ELSE \E ix \in Own(q) : v.questions[q] = game.questions[q].answers[ix]
           /\ \A text \in {"x", "zz"}, points \in {0, 7} :
                 to_team_game_state(OthersRewritten(game, n, text, points), n) = Some(v)

\* Both teams have answered the first question with different texts, the
\* first answer is some other team's and has been given points.
C27_Witness ==
    /\ Len(game.teams) = 2
    /\ Len(game.questions[1].answers) = 2
    /\ game.questions[1].answers[1].team_name # game.questions[1].answers[2].team_name
    /\ game.questions[1].answers[1].content # game.questions[1].answers[2].content
    /\ game.questions[1].answers[1].score.question_points > 0
    /\ game.questions[1].answers[2].score.question_points = 0

(***************************************************************************)
(* Partial points and the speed bonus.                                     *)
(***************************************************************************)
\* C29: a ScoreAnswer whose question_points are above 0 and below the
\* question's points scores the answer it names and no other: every other
\* answer of the question, one with the same normalized text included, keeps
\* its question_points and its bonus_points.
C29_PartialPointsStay ==
    [][\A h \in HostConns, a \in ScoreAnswerInputs(TeamNames, ScoreInputs) :
          (/\ HostMessage(h, a)
           /\ a.question_number <= Len(game.questions)
           /\ a.score.question_points > 0
           /\ a.score.question_points < game.questions[a.question_number].question_points)
          => LET before == game.questions[a.question_number].answers
                 after == game'.questions[a.question_number].answers
                 Target(x) == eq_ignore_ascii_case(x.team_name, a.team_name)
                 t == FirstIdx([ix \in 1..Len(before) |-> Target(before[ix])])
             IN /\ Len(after) = Len(before)
                /\ \A j \in 1..Len(after) :
                      j # t => /\ after[j].score.question_points
                                     = before[j].score.question_points
                               /\ after[j].score.bonus_points = before[j].score.bonus_points]_vars

\* C30: when the speed bonuses of a question with speed_bonus_enabled are
\* recomputed (here by a ScoreAnswer that finds its answer), the k-th answer
\* (from 0, in submission order) among those with question_points > 0 gets
\* (first_place_points * (num_teams - k)) / num_teams, truncated, if
\* k < num_teams and 0 otherwise, and an answer with question_points <= 0
\* gets 0; with num_teams = 0 every answer gets 0.
C30_SpeedBonusFormula ==
    [][\A h \in HostConns, a \in ScoreAnswerInputs(TwoTeams, SpeedScoreInputs) :
          (/\ HostMessage(h, a)
           /\ host_pc'[h] = "broadcast"
           /\ a.question_number <= Len(game.questions)
           /\ game.questions[a.question_number].speed_bonus_enabled)
          => LET after == game'.questions[a.question_number].answers
                 num_teams == game'.game_settings.speed_bonus_num_teams
                 first_place_points == game'.game_settings.speed_bonus_first_place_points
                 K(j) == Cardinality({i \in 1..(j - 1) : after[i].score.question_points > 0})
             IN \A j \in 1..Len(after) :
                   after[j].score.speed_bonus_points =
                      IF after[j].score.question_points > 0 /\ K(j) < num_teams
                      THEN (first_place_points * (num_teams - K(j))) \div num_teams
                      ELSE 0]_vars

\* Three places are paid from 10 points and both answers are correct: the
\* first holds 10 and the second 6 (20 / 3, truncated).
C30_Witness ==
    /\ game.game_settings.speed_bonus_num_teams = 3
    /\ game.questions[1].speed_bonus_enabled
    /\ Len(game.questions[1].answers) = 2
    /\ game.questions[1].answers[1].score.question_points > 0
    /\ game.questions[1].answers[2].score.question_points > 0
    /\ game.questions[1].answers[1].score.speed_bonus_points = 10
    /\ game.questions[1].answers[2].score.speed_bonus_points = 6

\* The tick tasks that are in their loop and not aborted: each of them
\* decrements timer_seconds_remaining once a second.
LiveTickTasks ==
    {t \in Tasks : tasks[t].pc \in {"sleep", "tick_bcast"} /\ ~tasks[t].aborted}

\* C31: at any time at most one tick task can decrement the game's
\* timer_seconds_remaining: at most one task is in its loop and not aborted,
\* whatever the hosts in the host loop have started.
C31_OneTickTask == Cardinality(LiveTickTasks) <= 1

\* C32: ScoreAnswer, UpdateQuestionSettings and UpdateTypeSpecificSettings
\* that name a question number outside 1..len(questions), 0 included, are
\* answered with an error on the host's channel and nothing else, leave the
\* game as it was, and leave the host's handler in its loop.
C32_OutOfRangeRejected ==
    [][\A h \in HostConns, a \in RangeInputs :
          (HostMessage(h, a) /\ a.question_number \notin 1..Len(game.questions))
          => /\ game' = game
             /\ host_pc'[h] = "idle"
             /\ sent' # {}
             /\ \A m \in sent' : m.to = h /\ m.type = "Error"]_vars

\* The messages are one or more errors, all on the channel of connection c.
ErrorOnlyTo(msgs, c) == msgs # {} /\ \A m \in msgs : m.to = c /\ m.type = "Error"

\* Team team_name has an answer on question q.
HasAnswerOn(q, team_name) ==
    \E i \in 1..Len(game.questions[q].answers) :
       game.questions[q].answers[i].team_name = team_name

\* C33: a state-machine error is answered with an error on the requester's
\* channel only and leaves the game as it was: a second submission on a
\* question, a submission on a MultiAnswer question, a score for a team with
\* no answer on the question, an override for an unknown team, and a
\* type-specific config of another kind than the question's.  No broadcast
\* to the teams is left to be made.
C33_ErrorOnlyToRequester ==
    [][/\ \A c \in Conns, a \in SubmitInputs({"x"}) :
             (/\ TeamMessage(c, a)
              /\ \/ HasAnswerOn(game.current_question_number, team_local[c].team_name)
                 \/ current_question(game).question_kind = "MultiAnswer")
             => game' = game /\ ErrorOnlyTo(sent', c)
       /\ \A h \in HostConns, a \in RefusableInputs :
             (/\ HostMessage(h, a)
              /\ \/ a.type = "ScoreAnswer" /\ ~HasAnswerOn(1, a.team_name)
                 \/ /\ a.type = "OverrideTeamScore"
                    /\ \A i \in 1..Len(game.teams) : game.teams[i].team_name # a.team_name
                 \/ /\ a.type = "UpdateTypeSpecificSettings"
                    /\ ConfigKind(a.question_config) # game.questions[1].question_kind)
             => game' = game /\ ErrorOnlyTo(sent', h) /\ host_pc'[h] = "idle"]_vars

\* Both teams and the watcher are connected, and team "Bob", which has an
\* answer on question 1, has just been refused a second one.
C33_Witness ==
    /\ \A c \in Conns : team_pc[c] = "loop"
    /\ watchers = WatcherConns
    /\ HasAnswerOn(1, "Bob")
    /\ sent = {ErrorMsg(1, "Answer already submitted")}

\* C34: OverrideTeamScore for a team of the game sets that team's
\* score.override_points and changes nothing else in the game: not the
\* team's other points, no answer, no other team.  A ScoreAnswer and a
\* submission, with the recalculations they make, leave every team's
\* override_points as they were.
C34_OverrideOnly ==
    [][/\ \A h \in HostConns, a \in RefusableInputs, i \in 1..Len(game.teams) :
             (/\ HostMessage(h, a)
              /\ a.type = "OverrideTeamScore"
              /\ game.teams[i].team_name = a.team_name)
             => game' = [game EXCEPT !.teams[i].score.override_points = a.override_points]
       /\ ((\E c \in Conns, a \in SubmitInputs({"x"}) : TeamMessage(c, a))
           \/ (\E h \in HostConns, a \in RefusableInputs :
                  HostMessage(h, a) /\ a.type = "ScoreAnswer"))
          => \A i \in 1..Len(game.teams) :
                game'.teams[i].score.override_points = game.teams[i].score.override_points]_vars

\* Team "Bob" has override points and the host has just scored its answer:
\* the team's question points were recalculated after the override.
C34_Witness ==
    /\ Len(game.teams) = 2
    /\ \E i \in 1..2 :
          /\ game.teams[i].team_name = "Bob"
          /\ game.teams[i].score.override_points = 7
          /\ game.teams[i].score.question_points = DEFAULT_QUESTION_POINTS
    /\ host_pc[0] = "broadcast"
    /\ sent = {GameStateMsg(0, to_game_state(game))}

\* C35: every TeamGameState enqueued for a team's connection carries, for
\* each question the team has answered, the team's own answer with its
\* content and score, whatever the letter case of the team's name.
C35_OwnAnswerInTeamState ==
    \A m \in sent :
       m.type = "TeamGameState"
       => \A q \in 1..Len(game.questions) :
             \A i \in 1..Len(game.questions[q].answers) :
                game.questions[q].answers[i].team_name = team_local[m.to].team_name
                => m.state.questions[q] = game.questions[q].answers[i]

\* C36: a step that changes the teams of the game (a team added, a
\* connected flag, a score) and leaves no broadcast of its handler to be
\* made enqueues the ScoreboardData of the new teams on every watcher
\* channel of the game.
C36_ScoreboardFollows ==
    [][(/\ game'.teams # game.teams
        /\ \A h \in HostConns : host_pc'[h] # "broadcast")
       => \A w \in watchers' :
             ScoreboardDataMsg(w, to_scoreboard_data(game')) \in sent']_vars

\* C37: a snapshot is taken for a save only by a NextQuestion, or by a
\* PrevQuestion that is not refused at the first question; the saved states
\* change only where process_host_message saves that snapshot and where the
\* host disconnects; and a save that fails changes neither the game nor the
\* saved states, and sends the host an error while its handler stays in the
\* loop.
C37_SaveOnlyAfterNavigation ==
    [][/\ \A h \in HostConns :
             (~Saving(h) /\ Saving(h)')
             => \E a \in NavInputs :
                   /\ HostMessage(h, a)
                   /\ a.type = "PrevQuestion" => game.current_question_number > 1
       /\ persistence' # persistence
          => \/ \E h \in HostConns : Saving(h) /\ HostBroadcast(h)
             \/ \E h \in HostConns : HostExit(h, FALSE)
       /\ \A h \in HostConns :
             (HostBroadcast(h) /\ ErrorMsg(h, "Failed to save game state") \in sent')
             => /\ Saving(h)
                /\ game' = game
                /\ persistence' = persistence
                /\ host_pc'[h] = "idle"
                /\ \A m \in sent' : m.type = "Error" => m.to = h]_vars

\* The host has moved to a second question and the save of that state has
\* just failed: nothing is saved and the host is back in its loop.
C37_Witness ==
    /\ Len(game.questions) = 2
    /\ game.current_question_number = 2
    /\ ErrorMsg(0, "Failed to save game state") \in sent
    /\ persistence.saved["A"] = None
    /\ host_pc[0] = "idle"

\* No handler or tick task is between a locked block and its sends.
NoneInFlight ==
    /\ \A h \in HostConns : host_pc[h] \in {"closed", "idle", "done"}
    /\ \A c \in Conns : team_pc[c] # "send"
    /\ \A t \in Tasks : tasks[t].pc \notin {"tick_bcast", "final_bcast"}

\* C38: full-state messages reach the host's channel in the order of the
\* states they show: a GameState enqueued by a step after which no action is
\* in flight is the last one on the channel, and shows the game as it is.
C38_HostStateInOrder ==
    [][\A m \in sent' :
          (m.type = "GameState" /\ NoneInFlight')
          => m.state = to_game_state(game')]_vars

(***************************************************************************)
(* Connected flags and team channels.                                      *)
(***************************************************************************)
\* The connection whose channel teams_tx holds for the team is in the team
\* loop under that team's name.
ChannelInLoop(g, team_name) ==
    LET key == to_lowercase(team_name)
    IN /\ key \in DOMAIN g.teams_tx
       /\ team_pc[g.teams_tx[key]] = "loop"
       /\ to_lowercase(team_local[g.teams_tx[key]].team_name) = key

\* The channel teams_tx holds under the name of connection d is d's, and
\* d is in the team loop.
HoldsChannel(d) ==
    LET key == to_lowercase(team_local[d].team_name)
    IN team_pc[d] = "loop" /\ key \in DOMAIN game.teams_tx /\ game.teams_tx[key] = d

\* A connection leaves the team loop and the channel of every other
\* connection is still in teams_tx, its team still connected.
ExitKeepsOthers ==
    \A c \in Conns :
        (team_pc[c] = "loop" /\ team_pc'[c] = "closed")
        => \A d \in Conns \ {c} :
              HoldsChannel(d)
              => /\ HoldsChannel(d)'
                 /\ game'.teams[find_team(game', team_local[d].team_name)].connected

\* A team is connected exactly when teams_tx has an entry under its
\* lower-cased name that is the channel of a connection in the team loop.
ConnectedIffChannel ==
    \A i \in 1..Len(game.teams) :
        game.teams[i].connected <=> ChannelInLoop(game, game.teams[i].team_name)

\* C39: between locked blocks a team is connected exactly when teams_tx has
\* an entry under its lower-cased name and that entry is the channel of a
\* connection that is in the team loop, and the exit of an older connection
\* of a name neither removes nor disables the channel of a newer one.
C39_ConnectedIffChannel == []ConnectedIffChannel /\ [][ExitKeepsOthers]_vars

(***************************************************************************)
(* The countdown ends.                                                     *)
(***************************************************************************)
\* The timer has run out: it is stopped at 0.
Expired ==
    /\ timer_phase = "expired"
    /\ game.timer_seconds_remaining = Some(0)
    /\ ~game.timer_running

\* The host has paused or reset the timer or left the question since the
\* last StartTimer.
Interrupted == timer_phase \in {"pausing", "paused", "reset", "next", "none"}

\* A tick task is between its spawn and its end.
Alive(t) == tasks[t].pc \in {"sleep", "tick_bcast", "final_bcast"}

\* C40: under fair scheduling, a started timer whose tick task has been
\* spawned runs out (timer_seconds_remaining = 0, timer_running = false)
\* unless the host pauses or resets it or leaves the question, a restarted
\* one counting from its restart; every tick task ends; each tick takes
\* exactly 1 off timer_seconds_remaining and the TimerTick sent for it
\* carries the value the tick left.
C40_CountdownEnds ==
    /\ (timer_phase = "started" /\ \E t \in Tasks : tasks[t].pc = "sleep")
           ~> (Expired \/ Interrupted)
    /\ \A t \in Tasks : Alive(t) ~> (tasks[t].pc = "done")
    /\ [][\A t \in Tasks :
            /\ (Tick(t) /\ tasks'[t].pc # "done")
               => /\ game'.timer_seconds_remaining
                        = Some(Unwrap(game.timer_seconds_remaining) - 1)
                  /\ tasks'[t].pc = "tick_bcast"
                        => tasks'[t].tick = Unwrap(game'.timer_seconds_remaining)
            /\ TickBroadcast(t)
               => \A m \in sent' : /\ m.type = "TimerTick"
                                   /\ m.state.seconds_remaining = tasks[t].tick]_vars

\* A countdown has run out untouched: the task that ticked it down has
\* ended and its last broadcast has been sent.
C40_Witness ==
    /\ Expired
    /\ tasks[1].pc = "done" /\ tasks[2].pc = "none"
    /\ team_pc[1] = "loop"
    /\ \E m \in sent : m.type = "GameState" /\ m.state.timer_seconds_remaining = Some(0)

=========================================================================
